---------------------------- MODULE Spec2Model ----------------------------
(*************************************************************************)
(* Cognitive deduplication engine (usc.cogdedup): chunker, hasher, LSH    *)
(* index, in-memory tiered store, UCOG batch codec, streaming encoder,    *)
(* co-occurrence predictor and store federation.                          *)
(*                                                                        *)
(* Sizes are scaled down so that the state space is finite: chunks are a  *)
(* few bytes long, the SimHash keeps the low N_BANDS * BAND_WIDTH bits of *)
(* the 64-bit hash (FNV-1a multiplies modulo a power of two, so the low   *)
(* bits of the real hash are exactly the hash computed modulo 2^HASH_BITS),*)
(* and the archival thresholds are a handful of chunks.  Every scaled     *)
(* constant names the source line that sets the real value.              *)
(*************************************************************************)
EXTENDS Integers, Sequences, FiniteSets, TLC

(* ---------------------------------------------------------------------- *)
(* Bounds of the model                                                    *)
(* ---------------------------------------------------------------------- *)
MaxCalls == 3          \* encode and store() calls per behaviour
MaxPlainEncodes == 4   \* encode calls per behaviour when only encodes run
MaxPredEncodes == 3    \* encode calls per behaviour when every encode has a predictor
MaxClock == 1          \* wall-clock ticks
MaxPiece == 2          \* bytes in one feed() call
MaxWarmUps == 2        \* encodes on the store before the stream's first call
MaxChunkInput == 7     \* longest input handed to the chunker alone
MaxStreamLen == 6      \* longest payload fed to a stream
MaxFedOps == 4         \* operations on the federation per behaviour
MaxListedEncodes == 2  \* encodes before the decodes of tokens that list an unknown id
MaxC3Ops == 3          \* store() and lookup_exact() calls on the C3CogStore
MaxC3Clock == 2        \* time.time() seen by the C3CogStore runs from 1 to this
MaxThreadCalls == 2    \* store() calls one thread makes on the shared MemoryCogStore
MaxCacheUpdates == 2   \* update_after_encode calls made on the predictor directly
MaxLshOps == 3         \* insert, remove and rebuild calls made on an LSHIndex
MaxObservations == 8   \* observe() calls made on the AnomalyDetector
MaxDuoLen == 4         \* longest payload fed to one of two streams on one store
MaxDuoWarmUps == 1     \* encodes on the store before the two streams start
MaxRegs == 3           \* register_data_chunks calls made on the two stores

(* ---------------------------------------------------------------------- *)
(* Program constants (scaled)                                             *)
(* ---------------------------------------------------------------------- *)
MIN_CHUNK == 2             \* hasher.py _MIN_CHUNK = 1024
AVG_CHUNK == 4             \* hasher.py _AVG_CHUNK = 4096
MAX_CHUNK == 6             \* hasher.py _MAX_CHUNK = 16384
MASK == AVG_CHUNK - 1      \* hasher.py _MASK
FP_MOD == 65536            \* hasher.py: fp & 0xFFFFFFFFFFFFFFFF (word width)
SHINGLE == 4               \* hasher.py: sliding 4-byte shingles
FNV_OFFSET == 5            \* hasher.py _FNV_OFFSET, low bits
FNV_PRIME == 3             \* hasher.py _FNV_PRIME, low bits
N_BANDS == 2               \* lsh.py N_BANDS = 8
BAND_WIDTH == 2            \* lsh.py BAND_WIDTH = 8
SIMILARITY_THRESHOLD == 2  \* hasher.py SIMILARITY_THRESHOLD = 8
WINDOW_SIZE == 6           \* anomaly.py window_size = 50
MIN_HISTORY == 5           \* anomaly.py: len(self._history) < 5
Z_LOW == 0 - 2             \* anomaly.py z_threshold_low = -2.0
Z_HIGH == 3                \* anomaly.py z_threshold_high = 3.0
VERSION == 2               \* codec.py VERSION
REF == 0                   \* codec.py REF
DELTA == 1                 \* codec.py DELTA
FULL == 2                  \* codec.py FULL
PRED_DELTA == 3            \* codec.py PRED_DELTA
COLD_REF_COUNT == 1        \* store.py COLD_REF_COUNT
COLD_AGE_SECONDS == 0      \* store.py COLD_AGE_SECONDS = 60
ARCHIVE_TRIGGER == 2       \* store.py ARCHIVE_TRIGGER = 500
ARCHIVE_MODULO == 2        \* store.py: len(self._by_id) % 100 == 0
ARCHIVE_KEEP_WARM == 1     \* store.py ARCHIVE_KEEP_WARM = 200
TOP_K == 5                 \* predictor.py: get_predicted_chunks(top_k=5)
DICT_MIN_LEN == 2          \* predictor.py: len(dict_content) < 64
DICT_CACHE_SIZE == 2       \* predictor.py dict_cache_size = 256
WARM_LAST == 3             \* predictor.py: chunk_ids[-3:]
PROMOTE_THRESHOLD == 2     \* federation.py promote_threshold (tests use 2, 3)
HOT_MIN_REF_COUNT == 3     \* c3_cogstore.py HOT_MIN_REF_COUNT = 5
HOT_MAX_CHUNKS == 2        \* c3_cogstore.py HOT_MAX_CHUNKS = 10000
COLD_MIN_AGE_SECONDS == 0  \* c3_cogstore.py COLD_AGE_DAYS * 86400
MAX_REF_COUNT_FOR_SIMILARITY == 2  \* integrity.py max_ref_count_for_similarity = 1000

HASH_BITS == N_BANDS * BAND_WIDTH
MAGIC == <<85, 67, 79, 71>>    \* codec.py MAGIC = b"UCOG"

(* Python's None for ChunkEntry.data: no byte string equals it. *)
None == << 0 - 1 >>

(* ---------------------------------------------------------------------- *)
(* Integer helpers                                                        *)
(* ---------------------------------------------------------------------- *)
RECURSIVE Pow2(_)
Pow2(n) == IF n = 0 THEN 1 ELSE 2 * Pow2(n - 1)

RECURSIVE BitXor(_, _)
BitXor(a, b) ==
    IF a = 0 THEN b
    ELSE IF b = 0 THEN a
    ELSE (((a % 2) + (b % 2)) % 2) + 2 * BitXor(a \div 2, b \div 2)

RECURSIVE BitAnd(_, _)
BitAnd(a, b) ==
    IF a = 0 \/ b = 0 THEN 0
    ELSE ((a % 2) * (b % 2)) + 2 * BitAnd(a \div 2, b \div 2)

RECURSIVE PopCount(_)
PopCount(x) == IF x = 0 THEN 0 ELSE (x % 2) + PopCount(x \div 2)

Min2(a, b) == IF a < b THEN a ELSE b
Max2(a, b) == IF a > b THEN a ELSE b

RECURSIVE Concat(_)
Concat(ss) == IF ss = <<>> THEN <<>> ELSE Head(ss) \o Concat(Tail(ss))

(* data[a:b] with Python's clamping, offsets 0-based *)
Slice(s, a, b) == SubSeq(s, a + 1, Min2(b, Len(s)))

RECURSIVE SeqsUpTo(_, _)
SeqsUpTo(S, n) ==
    IF n = 0 THEN {<<>>}
    ELSE LET shorter == SeqsUpTo(S, n - 1)
         IN  shorter \cup {Append(s, b) : s \in {t \in shorter : Len(t) = n - 1}, b \in S}

(* ---------------------------------------------------------------------- *)
(* hasher.py: content-defined chunking                                    *)
(* ---------------------------------------------------------------------- *)
(* the loop without the flush of the bytes after the last boundary        *)
cdc_loop_no_tail(data, i, start, fp, chunks) ==
    LET RECURSIVE go(_, _, _, _)
        go(k, st, f, cs) ==
            IF k >= Len(data) THEN cs
            ELSE LET f2 == BitXor(f * 2, data[k + 1]) % FP_MOD
                     chunk_len == k - st + 1
                 IN  IF chunk_len < MIN_CHUNK
                     THEN go(k + 1, st, f2, cs)
                     ELSE IF chunk_len >= MAX_CHUNK \/ BitAnd(f2, MASK) = 0
                          THEN go(k + 1, k + 1, 0, Append(cs, Slice(data, st, k + 1)))
                          ELSE go(k + 1, st, f2, cs)
    IN  go(i, start, fp, chunks)

(* the loop with the forced cut one byte late                             *)
cdc_loop_late_cut(data, i, start, fp, chunks) ==
    LET RECURSIVE go(_, _, _, _)
        go(k, st, f, cs) ==
            IF k >= Len(data)
            THEN IF st < Len(data) THEN Append(cs, Slice(data, st, Len(data))) ELSE cs
            ELSE LET f2 == BitXor(f * 2, data[k + 1]) % FP_MOD
                     chunk_len == k - st + 1
                 IN  IF chunk_len < MIN_CHUNK
                     THEN go(k + 1, st, f2, cs)
                     ELSE IF chunk_len > MAX_CHUNK \/ BitAnd(f2, MASK) = 0
                          THEN go(k + 1, k + 1, 0, Append(cs, Slice(data, st, k + 1)))
                          ELSE go(k + 1, st, f2, cs)
    IN  go(i, start, fp, chunks)

RECURSIVE cdc_loop(_, _, _, _, _)
cdc_loop(data, i, start, fp, chunks) ==
    IF i >= Len(data)
    THEN IF start < Len(data) THEN Append(chunks, Slice(data, start, Len(data)))
         ELSE chunks
    ELSE LET fp2 == BitXor(fp * 2, data[i + 1]) % FP_MOD
             chunk_len == i - start + 1
         IN  IF chunk_len < MIN_CHUNK
             THEN cdc_loop(data, i + 1, start, fp2, chunks)
             ELSE IF chunk_len >= MAX_CHUNK \/ BitAnd(fp2, MASK) = 0
                  THEN cdc_loop(data, i + 1, i + 1, 0,
                                Append(chunks, Slice(data, start, i + 1)))
                  ELSE cdc_loop(data, i + 1, start, fp2, chunks)

cdc_python(data) == cdc_loop(data, 0, 0, 0, <<>>)

content_defined_chunks(data) ==
    IF Len(data) <= MIN_CHUNK
    THEN IF data # <<>> THEN <<data>> ELSE <<>>
    ELSE cdc_python(data)

(* ---------------------------------------------------------------------- *)
(* hasher.py: SHA-256 (collision-free), SimHash, hamming distance         *)
(* ---------------------------------------------------------------------- *)
sha256_hash(data) == [sha |-> data]

RECURSIVE fnv1a(_, _)
fnv1a(h, window) ==
    IF window = <<>> THEN h
    ELSE fnv1a((BitXor(h, Head(window)) * FNV_PRIME) % Pow2(HASH_BITS), Tail(window))

BitOf(h, bit) == (h \div Pow2(bit)) % 2

simhash64(data) ==
    IF Len(data) < SHINGLE THEN 0
    ELSE LET n == Len(data) - (SHINGLE - 1)
             hs == [i \in 1..n |-> fnv1a(FNV_OFFSET, SubSeq(data, i, i + SHINGLE - 1))]
             set_count(bit) == Cardinality({i \in 1..n : BitOf(hs[i], bit) = 1})
             \* counts[bit] = set_count - (n - set_count) > 0
             bits == {bit \in 0..(HASH_BITS - 1) : 2 * set_count(bit) - n > 0}
             RECURSIVE SumBits(_)
             SumBits(B) == IF B = {} THEN 0
                           ELSE LET b == CHOOSE x \in B : TRUE
                                IN  Pow2(b) + SumBits(B \ {b})
         IN  SumBits(bits)

hamming_distance(a, b) == PopCount(BitXor(a, b))

(* ---------------------------------------------------------------------- *)
(* usc.mem.varint: unsigned LEB128                                        *)
(* ---------------------------------------------------------------------- *)
RECURSIVE encode_uvarint(_)
encode_uvarint(n) ==
    IF n < 128 THEN <<n>>
    ELSE <<(n % 128) + 128>> \o encode_uvarint(n \div 128)

(* Returns [ok, val, off]; off is 0-based like the Python offset. *)
RECURSIVE decode_uvarint_from(_, _, _, _)
decode_uvarint_from(buf, off, shift, acc) ==
    IF off >= Len(buf) THEN [ok |-> FALSE, val |-> 0, off |-> off]
    ELSE LET b == buf[off + 1]
             acc2 == acc + (b % 128) * Pow2(shift)
         IN  IF b < 128 THEN [ok |-> TRUE, val |-> acc2, off |-> off + 1]
             ELSE decode_uvarint_from(buf, off + 1, shift + 7, acc2)

decode_uvarint(buf, off) == decode_uvarint_from(buf, off, 0, 0)

(* ---------------------------------------------------------------------- *)
(* zstd and zlib.  A plain frame is a frame byte followed by the          *)
(* literals.  A dictionary frame replaces the longest prefix the data     *)
(* shares with the dictionary by its length, so its size and its          *)
(* decompression both depend on the dictionary bytes supplied.            *)
(* ---------------------------------------------------------------------- *)
RECURSIVE CommonPrefix(_, _)
CommonPrefix(a, b) ==
    IF a = <<>> \/ b = <<>> \/ Head(a) # Head(b) THEN 0
    ELSE 1 + CommonPrefix(Tail(a), Tail(b))

Fail == [ok |-> FALSE, data |-> <<>>]
Ok(d) == [ok |-> TRUE, data |-> d]

zstd_compress(data) == <<40>> \o data

zstd_decompress(z) ==
    IF Len(z) >= 1 /\ z[1] = 40 THEN Ok(Tail(z)) ELSE Fail

(* ZstdCompressor(dict_data=ZstdCompressionDict(dict)).compress(data) *)
compress_with_dict(data, dict) ==
    LET n == CommonPrefix(dict, data)
    IN  <<n>> \o SubSeq(data, n + 1, Len(data))

(* ZstdDecompressor(dict_data=ZstdCompressionDict(dict)).decompress(z) *)
decompress_with_dict(z, dict) ==
    IF Len(z) >= 1 /\ z[1] <= Len(dict)
    THEN Ok(SubSeq(dict, 1, z[1]) \o Tail(z))
    ELSE Fail

compute_delta(src, dst) == compress_with_dict(dst, src)
apply_delta(src, delta) == decompress_with_dict(delta, src)

zlib_compress(data) == <<120>> \o data
zlib_decompress(z) == Tail(z)

(* ---------------------------------------------------------------------- *)
(* lsh.py: LSHIndex                                                       *)
(* ---------------------------------------------------------------------- *)
BandIds == 0..(N_BANDS - 1)
BandVals == 0..(Pow2(BAND_WIDTH) - 1)

extract_bands(simhash) ==
    [i \in BandIds |-> (simhash \div Pow2(i * BAND_WIDTH)) % Pow2(BAND_WIDTH)]

EmptyFn == [k \in {} |-> 0]

NewLSHIndex ==
    [buckets |-> [b \in BandIds |-> [v \in BandVals |-> {}]],
     simhashes |-> EmptyFn]

Put(f, k, v) == [j \in (DOMAIN f) \cup {k} |-> IF j = k THEN v ELSE f[j]]
Drop(f, k) == [j \in (DOMAIN f) \ {k} |-> f[j]]

lsh_insert(lsh, chunk_id, simhash) ==
    LET bands == extract_bands(simhash)
    IN  [buckets |-> [b \in BandIds |->
                        [lsh.buckets[b] EXCEPT ![bands[b]] = @ \cup {chunk_id}]],
         simhashes |-> Put(lsh.simhashes, chunk_id, simhash)]

lsh_remove(lsh, chunk_id) ==
    IF chunk_id \notin DOMAIN lsh.simhashes THEN lsh
    ELSE LET bands == extract_bands(lsh.simhashes[chunk_id])
         IN  [buckets |-> [b \in BandIds |->
                             [lsh.buckets[b] EXCEPT ![bands[b]] = @ \ {chunk_id}]],
              simhashes |-> Drop(lsh.simhashes, chunk_id)]

(* query_candidates looking in the bucket of the first band only *)
query_candidates_first_band(lsh, simhash) ==
    LET bands == extract_bands(simhash)
    IN  lsh.buckets[0][bands[0]]

query_candidates(lsh, simhash) ==
    LET bands == extract_bands(simhash)
    IN  UNION {lsh.buckets[b][bands[b]] : b \in BandIds}

(* The loop keeps the first candidate of least distance; candidates are   *)
(* visited in ascending id order (a set of small ints).  -1 stands for    *)
(* Python's None.                                                         *)
RECURSIVE nearest_loop(_, _, _, _, _)
nearest_loop(lsh, simhash, cands, best_dist, best_id) ==
    IF cands = {} THEN best_id
    ELSE LET cid == CHOOSE c \in cands : \A o \in cands : c <= o
             d == hamming_distance(simhash, lsh.simhashes[cid])
         IN  IF d < best_dist
             THEN nearest_loop(lsh, simhash, cands \ {cid}, d, cid)
             ELSE nearest_loop(lsh, simhash, cands \ {cid}, best_dist, best_id)

(* query_nearest with best_dist starting at threshold *)
query_nearest_strict(lsh, simhash, threshold) ==
    nearest_loop(lsh, simhash, query_candidates(lsh, simhash), threshold, 0 - 1)

query_nearest(lsh, simhash, threshold) ==
    nearest_loop(lsh, simhash, query_candidates(lsh, simhash), threshold + 1, 0 - 1)

(* ---------------------------------------------------------------------- *)
(* store.py: ChunkEntry and MemoryCogStore                                *)
(* ---------------------------------------------------------------------- *)
ChunkEntry(cid, sha, sh, data, rc, la) ==
    [chunk_id |-> cid, sha256 |-> sha, simhash |-> sh, data |-> data,
     ref_count |-> rc, last_access |-> la]

NoEntry == ChunkEntry(0 - 1, [sha |-> None], 0, None, 0, 0)

Found(st, e) == [st |-> st, found |-> TRUE, entry |-> e]
NotFound(st) == [st |-> st, found |-> FALSE, entry |-> NoEntry]

NewMemoryCogStore ==
    [kind |-> "mem", by_id |-> EmptyFn, by_sha |-> EmptyFn, lsh |-> NewLSHIndex, next_id |-> 0,
     cooccurrence |-> EmptyFn, data_chunks |-> EmptyFn,
     cold_archive |-> EmptyFn, cold_meta |-> EmptyFn]

(* by_sha maps a digest to the id of the entry object both maps share. *)
mem_lookup_exact(st, sha, now) ==
    IF sha \in DOMAIN st.by_sha
    THEN LET cid == st.by_sha[sha]
             st2 == [st EXCEPT !.by_id[cid].ref_count = @ + 1,
                               !.by_id[cid].last_access = now]
         IN  Found(st2, st2.by_id[cid])
    ELSE NotFound(st)

mem_lookup_similar(st, simhash, now) ==
    LET best_id == query_nearest(st.lsh, simhash, SIMILARITY_THRESHOLD)
    IN  IF best_id # 0 - 1
        THEN LET st2 == [st EXCEPT !.by_id[best_id].last_access = now]
             IN  Found(st2, st2.by_id[best_id])
        ELSE NotFound(st)

(* candidates.sort() on (ref_count, last_access, cid) tuples *)
KeyLess(a, b) ==
    \/ a[1] < b[1]
    \/ a[1] = b[1] /\ a[2] < b[2]
    \/ a[1] = b[1] /\ a[2] = b[2] /\ a[3] < b[3]

RECURSIVE SortKeys(_)
SortKeys(S) ==
    IF S = {} THEN <<>>
    ELSE LET m == CHOOSE k \in S : \A o \in S \ {k} : KeyLess(k, o)
         IN  <<m>> \o SortKeys(S \ {m})

RECURSIVE archive_each(_, _)
archive_each(st, keys) ==
    IF keys = <<>> THEN st
    ELSE LET cid == Head(keys)[3]
             entry == st.by_id[cid]
         IN  IF entry.data # None
             THEN archive_each(
                    [st EXCEPT !.cold_archive = Put(@, cid, zlib_compress(entry.data)),
                               !.cold_meta = Put(@, cid, <<entry.sha256, entry.simhash>>),
                               !.by_id[cid].data = None],
                    Tail(keys))
             ELSE archive_each(st, Tail(keys))

archive_cold(st, now) ==
    LET candidates == {<<st.by_id[cid].ref_count, st.by_id[cid].last_access, cid>> :
                         cid \in {c \in DOMAIN st.by_id :
                                    /\ st.by_id[c].data # None
                                    /\ st.by_id[c].ref_count <= COLD_REF_COUNT
                                    /\ (now - st.by_id[c].last_access) > COLD_AGE_SECONDS}}
        sorted == SortKeys(candidates)
        warm_count == Cardinality({c \in DOMAIN st.by_id : st.by_id[c].data # None})
        max_to_archive == Max2(0, warm_count - ARCHIVE_KEEP_WARM)
        to_archive == SubSeq(sorted, 1, Min2(max_to_archive, Len(sorted)))
    IN  IF candidates = {} THEN st ELSE archive_each(st, to_archive)

(* store() that hands a new chunk the id of a chunk whose data went cold  *)
mem_store_reuse_cold(st, data, now) ==
    LET sha == sha256_hash(data)
        cold == {c \in DOMAIN st.by_id : st.by_id[c].data = None}
        cid == IF sha \in DOMAIN st.by_sha THEN st.by_sha[sha]
               ELSE IF cold # {} THEN CHOOSE c \in cold : \A o \in cold : c <= o
               ELSE st.next_id
        st1 == IF sha \in DOMAIN st.by_sha
               THEN [st EXCEPT !.by_id[cid].data =
                                   IF @ = None /\ cid \in DOMAIN st.cold_archive
                                   THEN zlib_decompress(st.cold_archive[cid]) ELSE @,
                               !.cold_archive = Drop(@, cid),
                               !.by_id[cid].ref_count = @ + 1,
                               !.by_id[cid].last_access = now]
               ELSE [st EXCEPT !.next_id = IF cid = @ THEN @ + 1 ELSE @,
                               !.by_id = Put(@, cid, ChunkEntry(cid, sha, simhash64(data),
                                                                data, 1, now)),
                               !.by_sha = Put(@, sha, cid),
                               !.cold_archive = Drop(@, cid),
                               !.lsh = lsh_insert(@, cid, simhash64(data))]
    IN  Found(st1, st1.by_id[cid])

(* store() that never consults or fills the sha index                     *)
mem_store_no_sha(st, data, now) ==
    LET cid == st.next_id
        sh == simhash64(data)
        entry == ChunkEntry(cid, sha256_hash(data), sh, data, 1, now)
        st1 == [st EXCEPT !.next_id = @ + 1,
                          !.by_id = Put(@, cid, entry),
                          !.lsh = lsh_insert(@, cid, sh)]
    IN  Found(st1, entry)

mem_store(st, data, now) ==
    LET sha == sha256_hash(data)
    IN  IF sha \in DOMAIN st.by_sha
        THEN LET cid == st.by_sha[sha]
                 existing == st.by_id[cid]
                 st1 == IF existing.data = None /\ cid \in DOMAIN st.cold_archive
                        THEN [st EXCEPT !.by_id[cid].data = zlib_decompress(st.cold_archive[cid]),
                                        !.cold_archive = Drop(@, cid)]
                        ELSE st
                 st2 == [st1 EXCEPT !.by_id[cid].ref_count = @ + 1,
                                    !.by_id[cid].last_access = now]
             IN  Found(st2, st2.by_id[cid])
        ELSE LET cid == st.next_id
                 sh == simhash64(data)
                 entry == ChunkEntry(cid, sha, sh, data, 1, now)
                 st1 == [st EXCEPT !.next_id = @ + 1,
                                   !.by_id = Put(@, cid, entry),
                                   !.by_sha = Put(@, sha, cid),
                                   !.lsh = lsh_insert(@, cid, sh)]
                 n == Cardinality(DOMAIN st1.by_id)
                 st2 == IF n > ARCHIVE_TRIGGER /\ n % ARCHIVE_MODULO = 0
                        THEN archive_cold(st1, now)
                        ELSE st1
             IN  Found(st2, st2.by_id[cid])

(* get() that hands out the entry as it lies, without re-inflating a     *)
(* cold chunk from the archive                                            *)
mem_get_no_inflate(st, chunk_id) ==
    IF chunk_id \in DOMAIN st.by_id
    THEN Found(st, st.by_id[chunk_id])
    ELSE NotFound(st)

mem_get(st, chunk_id) ==
    IF chunk_id \in DOMAIN st.by_id
    THEN LET entry == st.by_id[chunk_id]
             st2 == IF entry.data = None /\ chunk_id \in DOMAIN st.cold_archive
                    THEN [st EXCEPT !.by_id[chunk_id].data =
                                        zlib_decompress(st.cold_archive[chunk_id])]
                    ELSE st
         IN  Found(st2, st2.by_id[chunk_id])
    ELSE NotFound(st)

(* stats(): the counts of chunks *)
mem_stats(st) ==
    [unique_chunks |-> Cardinality(DOMAIN st.by_id),
     warm_chunks |-> Cardinality({c \in DOMAIN st.by_id : st.by_id[c].data # None}),
     cold_chunks |-> Cardinality(DOMAIN st.cold_archive)]

(* _cooccurrence[a] is a dict: neighbours in insertion order, as [id, n]. *)
IndexOf(seq, b) ==
    IF \E k \in 1..Len(seq) : seq[k].id = b
    THEN CHOOSE k \in 1..Len(seq) : seq[k].id = b
    ELSE 0

Bump(seq, b) ==
    LET k == IndexOf(seq, b)
    IN  IF k = 0 THEN Append(seq, [id |-> b, n |-> 1])
        ELSE [seq EXCEPT ![k].n = @ + 1]

RECURSIVE cooc_inner(_, _, _, _)
cooc_inner(row, chunk_ids, i, j) ==
    IF j > Len(chunk_ids) THEN row
    ELSE cooc_inner(IF i # j THEN Bump(row, chunk_ids[j]) ELSE row, chunk_ids, i, j + 1)

RECURSIVE cooc_outer(_, _, _)
cooc_outer(cooc, chunk_ids, i) ==
    IF i > Len(chunk_ids) THEN cooc
    ELSE LET a == chunk_ids[i]
             row == IF a \in DOMAIN cooc THEN cooc[a] ELSE <<>>
         IN  cooc_outer(Put(cooc, a, cooc_inner(row, chunk_ids, i, 1)), chunk_ids, i + 1)

mem_record_cooccurrence(st, chunk_ids) ==
    [st EXCEPT !.cooccurrence = cooc_outer(@, chunk_ids, 1)]

(* sorted(neighbors, key=neighbors.get, reverse=True): stable, so equal    *)
(* counts keep their insertion order.                                     *)
RECURSIVE InsertDesc(_, _)
InsertDesc(sorted, e) ==
    IF sorted = <<>> THEN <<e>>
    ELSE IF Head(sorted).n >= e.n THEN <<Head(sorted)>> \o InsertDesc(Tail(sorted), e)
    ELSE <<e>> \o sorted

RECURSIVE SortDesc(_, _)
SortDesc(done, rest) ==
    IF rest = <<>> THEN done ELSE SortDesc(InsertDesc(done, Head(rest)), Tail(rest))

mem_get_predicted_chunks(st, chunk_id, top_k) ==
    LET neighbors == IF chunk_id \in DOMAIN st.cooccurrence
                     THEN st.cooccurrence[chunk_id] ELSE <<>>
        sorted == SortDesc(<<>>, neighbors)
        sorted_ids == SubSeq(sorted, 1, Min2(top_k, Len(sorted)))
        InStore(e) == e.id \in DOMAIN st.by_id
        kept == SelectSeq(sorted_ids, InStore)
    IN  [k \in 1..Len(kept) |-> st.by_id[kept[k].id]]

mem_register_data_chunks(st, data_id, chunk_ids) ==
    [st EXCEPT !.data_chunks = Put(@, data_id, chunk_ids)]

mem_get_chunk_ids_for_data(st, data_id) ==
    IF data_id \in DOMAIN st.data_chunks THEN st.data_chunks[data_id] ELSE {}

(* ---------------------------------------------------------------------- *)
(* federation.py: FederatedStore (one agent's view: its local store, the  *)
(* shared store, the promoted digests and the local-to-shared id map)     *)
(* ---------------------------------------------------------------------- *)
NewFederatedStore(local, shared) ==
    [kind |-> "fed", local |-> local, shared |-> shared,
     promoted |-> {}, id_remap |-> EmptyFn]

fed_lookup_exact(f, sha, now) ==
    LET sh == mem_lookup_exact(f.shared, sha, now)
    IN  IF sh.found THEN Found([f EXCEPT !.shared = sh.st], sh.entry)
        ELSE LET lo == mem_lookup_exact(f.local, sha, now)
             IN  [st |-> [f EXCEPT !.local = lo.st], found |-> lo.found, entry |-> lo.entry]

fed_lookup_similar(f, simhash, now) ==
    LET sh == mem_lookup_similar(f.shared, simhash, now)
    IN  IF sh.found THEN Found([f EXCEPT !.shared = sh.st], sh.entry)
        ELSE LET lo == mem_lookup_similar(f.local, simhash, now)
             IN  [st |-> [f EXCEPT !.local = lo.st], found |-> lo.found, entry |-> lo.entry]

fed_promote(f, entry, now) ==
    IF entry.data = None THEN f
    ELSE LET sh == mem_store(f.shared, entry.data, now)
         IN  [f EXCEPT !.shared = sh.st,
                       !.promoted = @ \cup {entry.sha256},
                       !.id_remap = Put(@, entry.chunk_id, sh.entry.chunk_id)]

(* store() that writes a new chunk into the shared store at once *)
fed_store_into_shared(f, data, now) ==
    LET sh == mem_store(f.shared, data, now)
    IN  Found([f EXCEPT !.shared = sh.st], sh.entry)

fed_store(f, data, now) ==
    LET sha == sha256_hash(data)
        sh == mem_lookup_exact(f.shared, sha, now)
    IN  IF sh.found THEN Found([f EXCEPT !.shared = sh.st], sh.entry)
        ELSE LET lo == mem_store(f.local, data, now)
                 f1 == [f EXCEPT !.local = lo.st]
                 f2 == IF lo.entry.ref_count >= PROMOTE_THRESHOLD /\ sha \notin f.promoted
                       THEN fed_promote(f1, lo.entry, now)
                       ELSE f1
             IN  Found(f2, lo.entry)

fed_get(f, chunk_id) ==
    LET sh == mem_get(f.shared, chunk_id)
    IN  IF sh.found THEN Found([f EXCEPT !.shared = sh.st], sh.entry)
        ELSE LET rm == IF chunk_id \in DOMAIN f.id_remap
                       THEN mem_get(f.shared, f.id_remap[chunk_id])
                       ELSE NotFound(f.shared)
             IN  IF rm.found THEN Found([f EXCEPT !.shared = rm.st], rm.entry)
                 ELSE LET lo == mem_get(f.local, chunk_id)
                      IN  [st |-> [f EXCEPT !.local = lo.st],
                           found |-> lo.found, entry |-> lo.entry]

RECURSIVE dedup_by_sha(_, _, _)
dedup_by_sha(entries, seen, result) ==
    IF entries = <<>> THEN result
    ELSE LET e == Head(entries)
         IN  IF e.sha256 \in seen THEN dedup_by_sha(Tail(entries), seen, result)
             ELSE dedup_by_sha(Tail(entries), seen \cup {e.sha256}, Append(result, e))

fed_get_predicted_chunks(f, chunk_id, top_k) ==
    LET local_pred == mem_get_predicted_chunks(f.local, chunk_id, top_k)
        shared_pred == mem_get_predicted_chunks(f.shared, chunk_id, top_k)
        result == dedup_by_sha(shared_pred \o local_pred, {}, <<>>)
    IN  SubSeq(result, 1, Min2(top_k, Len(result)))

(* ---------------------------------------------------------------------- *)
(* The CogStore interface, dispatched on the backend                      *)
(* ---------------------------------------------------------------------- *)
S_lookup_exact(s, sha, now) ==
    IF s.kind = "mem" THEN mem_lookup_exact(s, sha, now) ELSE fed_lookup_exact(s, sha, now)

S_lookup_similar(s, simhash, now) ==
    IF s.kind = "mem" THEN mem_lookup_similar(s, simhash, now)
    ELSE fed_lookup_similar(s, simhash, now)

S_store(s, data, now) ==
    IF s.kind = "mem" THEN mem_store(s, data, now) ELSE fed_store(s, data, now)

S_get(s, chunk_id) ==
    IF s.kind = "mem" THEN mem_get(s, chunk_id) ELSE fed_get(s, chunk_id)

S_record_cooccurrence(s, chunk_ids) ==
    IF s.kind = "mem" THEN mem_record_cooccurrence(s, chunk_ids)
    ELSE [s EXCEPT !.local = mem_record_cooccurrence(@, chunk_ids)]

S_get_predicted_chunks(s, chunk_id, top_k) ==
    IF s.kind = "mem" THEN mem_get_predicted_chunks(s, chunk_id, top_k)
    ELSE fed_get_predicted_chunks(s, chunk_id, top_k)

S_register_data_chunks(s, data_id, chunk_ids) ==
    IF s.kind = "mem" THEN mem_register_data_chunks(s, data_id, chunk_ids)
    ELSE [s EXCEPT !.local = mem_register_data_chunks(@, data_id, chunk_ids)]

(* ---------------------------------------------------------------------- *)
(* predictor.py: PredictiveCompressor.  _dict_cache is a dict: a sequence *)
(* of [trigger, dict, ids] in insertion order.                            *)
(* ---------------------------------------------------------------------- *)
CacheIndex(cache, trigger) ==
    IF \E k \in 1..Len(cache) : cache[k].trigger = trigger
    THEN CHOOSE k \in 1..Len(cache) : cache[k].trigger = trigger
    ELSE 0

NoDict(cache) == [cache |-> cache, found |-> FALSE, dict |-> <<>>, ids |-> <<>>]

Truthy(data) == data # None /\ data # <<>>

(* get_dictionary_and_ids without the eviction of the oldest entry *)
get_dictionary_no_evict(cache, s, trigger_chunk_id) ==
    LET k == CacheIndex(cache, trigger_chunk_id)
        predicted == S_get_predicted_chunks(s, trigger_chunk_id, TOP_K)
        HasData(p) == Truthy(p.data)
        withData == SelectSeq(predicted, HasData)
        dict_chunk_ids == [j \in 1..Len(withData) |-> withData[j].chunk_id]
        dict_content == Concat([j \in 1..Len(withData) |-> withData[j].data])
    IN  IF k # 0
        THEN [cache |-> cache, found |-> TRUE, dict |-> cache[k].dict, ids |-> cache[k].ids]
        ELSE IF predicted = <<>> \/ Len(dict_content) < DICT_MIN_LEN THEN NoDict(cache)
        ELSE [cache |-> Append(cache, [trigger |-> trigger_chunk_id, dict |-> dict_content,
                                       ids |-> dict_chunk_ids]),
              found |-> TRUE, dict |-> dict_content, ids |-> dict_chunk_ids]

get_dictionary_and_ids(cache, s, trigger_chunk_id) ==
    LET k == CacheIndex(cache, trigger_chunk_id)
    IN  IF k # 0
        THEN [cache |-> cache, found |-> TRUE, dict |-> cache[k].dict, ids |-> cache[k].ids]
        ELSE LET predicted == S_get_predicted_chunks(s, trigger_chunk_id, TOP_K)
                 HasData(p) == Truthy(p.data)
                 withData == SelectSeq(predicted, HasData)
                 dict_chunk_ids == [j \in 1..Len(withData) |-> withData[j].chunk_id]
                 dict_content == Concat([j \in 1..Len(withData) |-> withData[j].data])
             IN  IF predicted = <<>> THEN NoDict(cache)
                 ELSE IF Len(dict_content) < DICT_MIN_LEN THEN NoDict(cache)
                 ELSE LET kept == IF Len(cache) >= DICT_CACHE_SIZE THEN Tail(cache) ELSE cache
                          cache2 == Append(kept, [trigger |-> trigger_chunk_id,
                                                  dict |-> dict_content,
                                                  ids |-> dict_chunk_ids])
                      IN  [cache |-> cache2, found |-> TRUE,
                           dict |-> dict_content, ids |-> dict_chunk_ids]

RECURSIVE warm_cache(_, _, _)
warm_cache(cache, s, cids) ==
    IF cids = <<>> THEN cache
    ELSE warm_cache(IF CacheIndex(cache, Head(cids)) = 0
                    THEN get_dictionary_and_ids(cache, s, Head(cids)).cache
                    ELSE cache,
                    s, Tail(cids))

(* Returns the predictor's cache and the store after the call. *)
update_after_encode(cache, s, chunk_ids) ==
    IF Len(chunk_ids) < 2 THEN [cache |-> cache, st |-> s]
    ELSE LET s2 == S_record_cooccurrence(s, chunk_ids)
             recent == SubSeq(chunk_ids, Max2(1, Len(chunk_ids) - WARM_LAST + 1),
                              Len(chunk_ids))
         IN  [cache |-> warm_cache(cache, s2, recent), st |-> s2]

invalidate(cache, chunk_id) ==
    LET Other(c) == c.trigger # chunk_id IN SelectSeq(cache, Other)

(* ---------------------------------------------------------------------- *)
(* codec.py: the per-chunk decision procedure (shared, line for line, by  *)
(* cogdedup_encode and CogdedupStream._emit_chunk).  The accumulator is   *)
(* [st, cache, tokens, stats, ids, raised]; raised is an exception that   *)
(* left the call.                                                         *)
(* ---------------------------------------------------------------------- *)
ZeroStats == [ref |-> 0, delta |-> 0, full |-> 0, pred_delta |-> 0, chunks |-> 0]

NewAcc(s, cache, n) ==
    [st |-> s, cache |-> cache, tokens |-> <<>>,
     stats |-> [ZeroStats EXCEPT !.chunks = n], ids |-> <<>>, raised |-> FALSE]

full_token_of(chunk) ==
    LET full_bytes == zstd_compress(chunk)
    IN  <<FULL>> \o encode_uvarint(Len(full_bytes)) \o full_bytes

delta_token_of(similar, chunk) ==
    LET delta_bytes == compute_delta(similar.data, chunk)
    IN  <<DELTA>> \o encode_uvarint(similar.chunk_id)
                 \o encode_uvarint(Len(delta_bytes)) \o delta_bytes

pred_token_of(pred_dict, dict_chunk_ids, chunk) ==
    LET pred_bytes == compress_with_dict(chunk, pred_dict)
    IN  <<PRED_DELTA>> \o encode_uvarint(Len(dict_chunk_ids))
                      \o Concat([j \in 1..Len(dict_chunk_ids) |->
                                    encode_uvarint(dict_chunk_ids[j])])
                      \o encode_uvarint(Len(pred_bytes)) \o pred_bytes

(* the REF branch: the chunk is in the store *)
emit_ref(acc, exact) ==
    [acc EXCEPT !.st = exact.st,
                !.tokens = Append(@, <<REF>> \o encode_uvarint(exact.entry.chunk_id)),
                !.stats.ref = @ + 1,
                !.ids = Append(@, exact.entry.chunk_id)]

(* the smaller of the FULL token and, with a similar entry, the DELTA token *)
best_of_full_delta(similar, full_token, delta_token) ==
    IF similar.found /\ Len(delta_token) < Len(full_token)
    THEN [token |-> delta_token, type |-> "delta"]
    ELSE [token |-> full_token, type |-> "full"]

(* the PRED_DELTA token whenever there is one *)
best_takes_pred(best, pred, pred_token) ==
    IF pred.found THEN [token |-> pred_token, type |-> "pred_delta"] ELSE best

(* the PRED_DELTA token when it is smaller than the best so far *)
best_with_pred(best, pred, pred_token) ==
    IF pred.found /\ Len(pred_token) < Len(best.token)
    THEN [token |-> pred_token, type |-> "pred_delta"]
    ELSE best

(* emits the winning token and counts every such token as "full" *)
emit_best_as_full(acc, best, cache, stored) ==
    [st |-> stored.st,
     cache |-> cache,
     tokens |-> Append(acc.tokens, best.token),
     stats |-> [acc.stats EXCEPT !.full = @ + 1],
     ids |-> Append(acc.ids, stored.entry.chunk_id),
     raised |-> FALSE]

(* "Emit the winning token": stats, store.store(chunk), chunk id *)
emit_best(acc, best, cache, stored) ==
    [st |-> stored.st,
     cache |-> cache,
     tokens |-> Append(acc.tokens, best.token),
     stats |-> [acc.stats EXCEPT ![best.type] = @ + 1],
     ids |-> Append(acc.ids, stored.entry.chunk_id),
     raised |-> FALSE]

emit_predicted(acc, chunk, now, s, best, pred) ==
    emit_best(acc,
              best_with_pred(best, pred,
                             IF pred.found THEN pred_token_of(pred.dict, pred.ids, chunk)
                             ELSE <<>>),
              pred.cache,
              S_store(s, chunk, now))

emit_similar(acc, chunk, usePred, now, similar) ==
    IF similar.found /\ similar.entry.data = None
    THEN \* ZstdCompressionDict(None): TypeError leaves the call
         [acc EXCEPT !.st = similar.st, !.raised = TRUE]
    ELSE emit_predicted(acc, chunk, now, similar.st,
                        best_of_full_delta(similar, full_token_of(chunk),
                                           IF similar.found
                                           THEN delta_token_of(similar.entry, chunk)
                                           ELSE <<>>),
                        IF usePred /\ acc.ids # <<>>
                        THEN get_dictionary_and_ids(acc.cache, similar.st,
                                                    acc.ids[Len(acc.ids)])
                        ELSE NoDict(acc.cache))

emit_exact(acc, chunk, usePred, now, exact) ==
    IF exact.found THEN emit_ref(acc, exact)
    ELSE emit_similar(acc, chunk, usePred, now,
                      S_lookup_similar(exact.st, simhash64(chunk), now))

emit_chunk(acc, chunk, usePred, now) ==
    emit_exact(acc, chunk, usePred, now, S_lookup_exact(acc.st, sha256_hash(chunk), now))

RECURSIVE encode_loop(_, _, _, _)
encode_loop(acc, chunks, usePred, now) ==
    IF chunks = <<>> \/ acc.raised THEN acc
    ELSE encode_loop(emit_chunk(acc, Head(chunks), usePred, now), Tail(chunks), usePred, now)

SeqToSet(q) == {q[k] : k \in 1..Len(q)}

(* Post-encode: co-occurrence, cache warming, data-to-chunks mapping. *)
post_register(acc, up, data_id) ==
    [acc EXCEPT !.st = IF data_id # ""
                       THEN S_register_data_chunks(up.st, data_id, SeqToSet(acc.ids))
                       ELSE up.st,
                !.cache = up.cache]

post_encode(acc, usePred, data_id) ==
    post_register(acc,
                  IF usePred /\ Len(acc.ids) >= 2
                  THEN update_after_encode(acc.cache, acc.st, acc.ids)
                  ELSE [cache |-> acc.cache, st |-> acc.st],
                  data_id)

assemble(n_chunks, tokens) ==
    MAGIC \o <<VERSION>> \o encode_uvarint(n_chunks) \o Concat(tokens)

encode_chunks_of(data) ==
    LET chunks == content_defined_chunks(data)
    IN  IF chunks = <<>> THEN (IF data # <<>> THEN <<data>> ELSE << <<>> >>) ELSE chunks

(* Returns [raised, blob, stats, ids, st, cache]. *)
encode_return(n_chunks, fin) ==
    [raised |-> fin.raised,
     blob |-> IF fin.raised THEN <<>> ELSE assemble(n_chunks, fin.tokens),
     stats |-> fin.stats, ids |-> fin.ids, st |-> fin.st, cache |-> fin.cache]

encode_finish(acc, usePred, data_id) ==
    IF acc.raised THEN acc ELSE post_encode(acc, usePred, data_id)

encode_chunks(chunks, s, cache, usePred, data_id, now) ==
    encode_return(Len(chunks),
                  encode_finish(encode_loop(NewAcc(s, cache, Len(chunks)),
                                            chunks, usePred, now),
                                usePred, data_id))

cogdedup_encode(data, s, cache, usePred, data_id, now) ==
    encode_chunks(encode_chunks_of(data), s, cache, usePred, data_id, now)

(* ---------------------------------------------------------------------- *)
(* codec.py: cogdedup_decode.  Returns [ok, data, st]: st is the store    *)
(* after the get() calls the decoder made.                                *)
(* ---------------------------------------------------------------------- *)
DecFail(s) == [ok |-> FALSE, data |-> <<>>, st |-> s]

RECURSIVE read_ids(_, _, _, _)
read_ids(blob, off, n, acc) ==
    IF n = 0 THEN [ok |-> TRUE, ids |-> acc, off |-> off]
    ELSE LET r == decode_uvarint(blob, off)
         IN  IF ~r.ok THEN [ok |-> FALSE, ids |-> acc, off |-> off]
             ELSE read_ids(blob, r.off, n - 1, Append(acc, r.val))

(* dict_content: the data of the listed ids, in the order read *)
(* dictionary rebuilt from the listed ids but the first                   *)
rebuild_dict_skip_first(s, dict_chunk_ids, content) ==
    LET RECURSIVE go(_, _, _)
        go(st, ids, c) ==
            IF ids = <<>> THEN [st |-> st, content |-> c]
            ELSE LET g == S_get(st, Head(ids))
                 IN  go(g.st, Tail(ids),
                        IF g.found /\ Truthy(g.entry.data)
                        THEN c \o g.entry.data ELSE c)
    IN  IF dict_chunk_ids = <<>> THEN [st |-> s, content |-> content]
        ELSE go(s, Tail(dict_chunk_ids), content)

RECURSIVE rebuild_dict(_, _, _)
rebuild_dict(s, dict_chunk_ids, content) ==
    IF dict_chunk_ids = <<>> THEN [st |-> s, content |-> content]
    ELSE LET g == S_get(s, Head(dict_chunk_ids))
         IN  rebuild_dict(g.st, Tail(dict_chunk_ids),
                          IF g.found /\ Truthy(g.entry.data)
                          THEN content \o g.entry.data ELSE content)

RECURSIVE decode_loop(_, _, _, _, _)
(* a decoded chunk joins the parts, or its error ends the decode *)
decode_part(blob, off, n, parts, rec, s) ==
    IF ~rec.ok THEN DecFail(s)
    ELSE decode_loop(blob, off, n - 1, parts \o rec.data, s)

decode_ref(blob, off, n, parts, g) ==
    IF ~g.found THEN DecFail(g.st)
    ELSE decode_loop(blob, off, n - 1, parts \o g.entry.data, g.st)

decode_delta(blob, l, n, parts, g) ==
    IF ~g.found THEN DecFail(g.st)
    ELSE decode_part(blob, l.off + l.val, n, parts,
                     apply_delta(g.entry.data, Slice(blob, l.off, l.off + l.val)), g.st)

decode_pred(blob, l, n, parts, d) ==
    IF d.content = <<>> THEN DecFail(d.st)
    ELSE decode_part(blob, l.off + l.val, n, parts,
                     decompress_with_dict(Slice(blob, l.off, l.off + l.val), d.content),
                     d.st)

decode_pred_ids(blob, ids, l, n, parts, s) ==
    IF ~ids.ok \/ ~l.ok THEN DecFail(s)
    ELSE decode_pred(blob, l, n, parts, rebuild_dict(s, ids.ids, <<>>))

decode_pred_header(blob, ids, n, parts, s) ==
    decode_pred_ids(blob, ids, decode_uvarint(blob, ids.off), n, parts, s)

decode_delta_header(blob, a, l, n, parts, s) ==
    IF ~a.ok \/ ~l.ok THEN DecFail(s)
    ELSE decode_delta(blob, l, n, parts, S_get(s, a.val))

(* one chunk record: its type byte and the varint a after it *)
decode_chunk(blob, off, chunk_type, a, n, parts, s) ==
    IF chunk_type = REF
    THEN IF ~a.ok THEN DecFail(s)
         ELSE decode_ref(blob, a.off, n, parts, S_get(s, a.val))
    ELSE IF chunk_type = DELTA
    THEN decode_delta_header(blob, a, decode_uvarint(blob, a.off), n, parts, s)
    ELSE IF chunk_type = FULL
    THEN IF ~a.ok THEN DecFail(s)
         ELSE decode_part(blob, a.off + a.val, n, parts,
                          zstd_decompress(Slice(blob, a.off, a.off + a.val)), s)
    ELSE IF chunk_type = PRED_DELTA
    THEN decode_pred_header(blob,
                            IF a.ok THEN read_ids(blob, a.off, a.val, <<>>)
                            ELSE [ok |-> FALSE, ids |-> <<>>, off |-> off],
                            n, parts, s)
    ELSE DecFail(s)

decode_loop(blob, off, n, parts, s) ==
    IF n = 0 THEN [ok |-> TRUE, data |-> parts, st |-> s]
    ELSE IF off >= Len(blob) THEN DecFail(s)
    ELSE decode_chunk(blob, off, blob[off + 1], decode_uvarint(blob, off + 1),
                      n, parts, s)

decode_body(blob, n, s) ==
    IF ~n.ok THEN DecFail(s) ELSE decode_loop(blob, n.off, n.val, <<>>, s)

cogdedup_decode(blob, s) ==
    IF Slice(blob, 0, 4) # MAGIC THEN DecFail(s)
    ELSE IF Len(blob) < 5 THEN DecFail(s)
    ELSE IF blob[5] \notin {1, 2} THEN DecFail(s)
    ELSE decode_body(blob, decode_uvarint(blob, 5), s)

(* ---------------------------------------------------------------------- *)
(* streaming.py: CogdedupStream.  A call returns [stm, st, cache, error]: *)
(* the stream object, the store and the predictor cache after the call,   *)
(* and "none", "finished" (RuntimeError: stream already finished) or      *)
(* "type" (the TypeError of a DELTA against a cold entry).                *)
(* ---------------------------------------------------------------------- *)
NewStream ==
    [fp |-> 0, buf |-> <<>>, chunk_start |-> 0,
     tokens |-> <<>>, n_chunks |-> 0, chunk_ids |-> <<>>,
     stats |-> ZeroStats, total_fed |-> 0, finished |-> FALSE]

StreamRet(stm, s, cache, error) ==
    [stm |-> stm, st |-> s, cache |-> cache, error |-> error]

(* _emit_chunk: the batch encoder's per-chunk decision on the stream's    *)
(* token list, stats and chunk ids                                        *)
stream_after_emit(stm, acc) ==
    IF acc.raised
    THEN StreamRet(stm, acc.st, acc.cache, "type")
    ELSE StreamRet([stm EXCEPT !.tokens = acc.tokens,
                               !.stats = acc.stats,
                               !.chunk_ids = acc.ids,
                               !.n_chunks = @ + 1],
                   acc.st, acc.cache, "none")

stream_emit_chunk(stm, s, cache, chunk, usePred, now) ==
    stream_after_emit(stm,
                      emit_chunk([st |-> s, cache |-> cache, tokens |-> stm.tokens,
                                  stats |-> stm.stats, ids |-> stm.chunk_ids,
                                  raised |-> FALSE],
                                 chunk, usePred, now))

(* one byte of feed(): buffer it, update the fingerprint *)
feed_byte(stm, byte) ==
    [stm EXCEPT !.buf = Append(@, byte),
                !.fp = BitXor(@ * 2, byte) % FP_MOD,
                !.total_fed = @ + 1]

(* "Reset for next chunk" *)
feed_reset(e) ==
    IF e.error # "none" THEN e
    ELSE [e EXCEPT !.stm.buf = <<>>, !.stm.chunk_start = 0, !.stm.fp = 0]

(* feed()'s cut test on the buffered bytes, emitting the chunk on a cut *)
feed_cut(stm, s, cache, usePred, now) ==
    IF Len(stm.buf) - stm.chunk_start < MIN_CHUNK
    THEN StreamRet(stm, s, cache, "none")
    ELSE IF Len(stm.buf) - stm.chunk_start >= MAX_CHUNK \/ BitAnd(stm.fp, MASK) = 0
    THEN feed_reset(stream_emit_chunk(stm, s, cache,
                                      Slice(stm.buf, stm.chunk_start, Len(stm.buf)),
                                      usePred, now))
    ELSE StreamRet(stm, s, cache, "none")

RECURSIVE feed_rest(_, _, _, _)
feed_rest(e, data, usePred, now) ==
    IF data = <<>> \/ e.error # "none" THEN e
    ELSE feed_rest(feed_cut(feed_byte(e.stm, Head(data)), e.st, e.cache, usePred, now),
                   Tail(data), usePred, now)

feed_loop(stm, s, cache, data, usePred, now) ==
    feed_rest(StreamRet(stm, s, cache, "none"), data, usePred, now)

(* feed() without the check of _finished                                  *)
stream_feed_unchecked(stm, s, cache, data, usePred, now) ==
    feed_loop(stm, s, cache, data, usePred, now)

stream_feed(stm, s, cache, data, usePred, now) ==
    IF stm.finished THEN StreamRet(stm, s, cache, "finished")
    ELSE feed_loop(stm, s, cache, data, usePred, now)

(* finish(): [stm, st, cache, error, blob, stats] *)
stream_post(stm, post) ==
    StreamRet(stm, post.st, post.cache, "none")
        @@ [blob |-> assemble(stm.n_chunks, stm.tokens), stats |-> stm.stats]

stream_assemble(e, stm, usePred, data_id) ==
    stream_post(stm,
                post_encode([st |-> e.st, cache |-> e.cache,
                             tokens |-> stm.tokens, stats |-> stm.stats,
                             ids |-> stm.chunk_ids, raised |-> FALSE],
                            usePred, data_id))

stream_flushed(e, usePred, data_id) ==
    IF e.error # "none"
    THEN e @@ [blob |-> <<>>, stats |-> ZeroStats]
    ELSE stream_assemble(e, [e.stm EXCEPT !.stats.chunks = e.stm.n_chunks],
                         usePred, data_id)

stream_flush(stm, s, cache, usePred, now) ==
    IF Slice(stm.buf, stm.chunk_start, Len(stm.buf)) # <<>>
    THEN stream_emit_chunk(stm, s, cache, Slice(stm.buf, stm.chunk_start, Len(stm.buf)),
                           usePred, now)
    ELSE StreamRet(stm, s, cache, "none")

stream_finish(stm, s, cache, usePred, data_id, now) ==
    IF stm.finished
    THEN StreamRet(stm, s, cache, "finished") @@ [blob |-> <<>>, stats |-> ZeroStats]
    ELSE stream_flushed(stream_flush([stm EXCEPT !.finished = TRUE],
                                     s, cache, usePred, now),
                        usePred, data_id)

(* ---------------------------------------------------------------------- *)
(* c3_cogstore.py: C3CogStore                                             *)
(* rows, lsh_bands, cold_archive: the SQLite tables as the connection     *)
(* sees them; saved_tier: the tier column as of the last commit (the only *)
(* column written outside a committed transaction); hot, lsh: the         *)
(* in-memory hot cache (_hot_exact and _hot_by_id hold the same entries)  *)
(* and LSH index.                                                         *)
(* ---------------------------------------------------------------------- *)
to_signed64(n) == IF n >= Pow2(HASH_BITS - 1) THEN n - Pow2(HASH_BITS) ELSE n

to_unsigned64(n) == IF n < 0 THEN n + Pow2(HASH_BITS) ELSE n

NewC3CogStore ==
    [rows |-> EmptyFn, saved_tier |-> EmptyFn, lsh_bands |-> {},
     cold_archive |-> EmptyFn, next_rowid |-> 1, hot |-> EmptyFn, lsh |-> NewLSHIndex]

c3_commit(s) == [s EXCEPT !.saved_tier = [c \in DOMAIN s.rows |-> s.rows[c].tier]]

(* ChunkEntry(...) built from a row of cogdedup_chunks *)
c3_row_entry(s, cid, rc, la) ==
    ChunkEntry(cid, s.rows[cid].sha256, to_unsigned64(s.rows[cid].simhash),
               s.rows[cid].data, rc, la)

c3_decompress_cold(s, entry) ==
    IF entry.chunk_id \in DOMAIN s.cold_archive
    THEN [entry EXCEPT !.data = zlib_decompress(s.cold_archive[entry.chunk_id])]
    ELSE entry

(* "if entry.data is None or len(entry.data) == 0: _decompress_cold" *)
c3_inflated(s, entry) ==
    IF Truthy(entry.data) THEN entry ELSE c3_decompress_cold(s, entry)

c3_maybe_promote_hot(s, entry) ==
    IF /\ entry.ref_count >= HOT_MIN_REF_COUNT
       /\ entry.chunk_id \notin DOMAIN s.hot
       /\ Cardinality(DOMAIN s.hot) < HOT_MAX_CHUNKS
    THEN [s EXCEPT !.hot = Put(@, entry.chunk_id, entry),
                   !.rows[entry.chunk_id].tier = "hot"]
    ELSE s

(* _hot_exact.get(sha256) and SELECT ... WHERE sha256 = ?: the id, or -1 *)
HotIdOf(s, sha) ==
    IF \E c \in DOMAIN s.hot : s.hot[c].sha256 = sha
    THEN CHOOSE c \in DOMAIN s.hot : s.hot[c].sha256 = sha
    ELSE 0 - 1

RowIdOf(s, sha) ==
    IF \E c \in DOMAIN s.rows : s.rows[c].sha256 = sha
    THEN CHOOSE c \in DOMAIN s.rows : s.rows[c].sha256 = sha
    ELSE 0 - 1

c3_touch_hot(s, cid, now) ==
    [s EXCEPT !.hot[cid].ref_count = @ + 1, !.hot[cid].last_access = now]

c3_touch_row(s, cid, now) ==
    [s EXCEPT !.rows[cid].ref_count = @ + 1, !.rows[cid].last_access = now]

c3_found_hot(s, cid) == Found(s, s.hot[cid])

c3_promoted(s, entry) == Found(c3_maybe_promote_hot(s, entry), entry)

c3_lookup_exact(s, sha, now) ==
    IF HotIdOf(s, sha) # 0 - 1
    THEN c3_found_hot(c3_touch_hot(s, HotIdOf(s, sha), now), HotIdOf(s, sha))
    ELSE IF RowIdOf(s, sha) = 0 - 1 THEN NotFound(s)
    ELSE c3_promoted(s, c3_inflated(s, c3_row_entry(s, RowIdOf(s, sha),
                                                    s.rows[RowIdOf(s, sha)].ref_count, 0)))

c3_get(s, chunk_id) ==
    IF chunk_id \in DOMAIN s.hot THEN Found(s, s.hot[chunk_id])
    ELSE IF chunk_id \notin DOMAIN s.rows THEN NotFound(s)
    ELSE Found(s, c3_inflated(s, c3_row_entry(s, chunk_id, s.rows[chunk_id].ref_count,
                                              s.rows[chunk_id].last_access)))

(* the SQLite fallback of lookup_similar: candidates in ascending id      *)
(* order, the first of least distance within the threshold                *)
RECURSIVE c3_similar_loop(_, _, _, _, _)
c3_similar_loop(s, simhash, cands, best_dist, best) ==
    IF cands = {} THEN best
    ELSE LET cid == CHOOSE c \in cands : \A o \in cands : c <= o
             g == c3_get(s, cid)
         IN  IF g.found /\ hamming_distance(simhash, g.entry.simhash) < best_dist
             THEN c3_similar_loop(s, simhash, cands \ {cid},
                                  hamming_distance(simhash, g.entry.simhash), g)
             ELSE c3_similar_loop(s, simhash, cands \ {cid}, best_dist, best)

c3_lookup_similar(s, simhash) ==
    IF query_nearest(s.lsh, simhash, SIMILARITY_THRESHOLD) # 0 - 1
    THEN c3_get(s, query_nearest(s.lsh, simhash, SIMILARITY_THRESHOLD))
    ELSE c3_similar_loop(s, simhash,
                         {t[3] : t \in {u \in s.lsh_bands :
                                          u[2] = extract_bands(simhash)[u[1]]}},
                         SIMILARITY_THRESHOLD + 1, NotFound(s))

(* store(): the chunk is in the hot cache *)
c3_store_hot(s, cid, now) ==
    c3_found_hot(c3_commit(c3_touch_row(c3_touch_hot(s, cid, now), cid, now)), cid)

(* store(): the chunk is a row; the returned entry carries the row's data *)
c3_store_row(s, cid, now) ==
    c3_promoted(c3_commit(c3_touch_row(s, cid, now)),
                c3_row_entry(s, cid, s.rows[cid].ref_count + 1, 0))

(* store(): a new chunk *)
c3_store_new(s, data, sh, now) ==
    Found(c3_commit([s EXCEPT
                       !.rows = Put(@, s.next_rowid,
                                    [sha256 |-> sha256_hash(data), simhash |-> to_signed64(sh),
                                     data |-> data, ref_count |-> 1, last_access |-> now,
                                     tier |-> "warm"]),
                       !.next_rowid = @ + 1,
                       !.lsh_bands = @ \cup {<<b, extract_bands(sh)[b], s.next_rowid>> :
                                               b \in BandIds},
                       !.lsh = lsh_insert(@, s.next_rowid, sh)]),
          ChunkEntry(s.next_rowid, sha256_hash(data), sh, data, 1, now))

c3_store(s, data, now) ==
    IF HotIdOf(s, sha256_hash(data)) # 0 - 1
    THEN c3_store_hot(s, HotIdOf(s, sha256_hash(data)), now)
    ELSE IF RowIdOf(s, sha256_hash(data)) # 0 - 1
    THEN c3_store_row(s, RowIdOf(s, sha256_hash(data)), now)
    ELSE c3_store_new(s, data, simhash64(data), now)

RECURSIVE lsh_remove_all(_, _)
lsh_remove_all(lsh, ids) ==
    IF ids = {} THEN lsh
    ELSE LET c == CHOOSE x \in ids : TRUE
         IN  lsh_remove_all(lsh_remove(lsh, c), ids \ {c})

(* the rows archive_cold_chunks selects *)
c3_cold_candidates(s, now) ==
    {c \in DOMAIN s.rows :
        /\ s.rows[c].tier = "warm"
        /\ s.rows[c].ref_count < HOT_MIN_REF_COUNT
        /\ s.rows[c].last_access < now - COLD_MIN_AGE_SECONDS
        /\ s.rows[c].last_access > 0}

c3_archive_rows(s, sel) ==
    IF sel = {} THEN s
    ELSE c3_commit([s EXCEPT
                      !.cold_archive = [c \in (DOMAIN s.cold_archive) \cup sel |->
                                          IF c \in sel THEN zlib_compress(s.rows[c].data)
                                          ELSE s.cold_archive[c]],
                      !.rows = [c \in DOMAIN s.rows |->
                                  IF c \in sel
                                  THEN [s.rows[c] EXCEPT !.data = <<>>, !.tier = "cold"]
                                  ELSE s.rows[c]],
                      !.lsh = lsh_remove_all(@, sel)])

c3_archive_cold_chunks(s, now) == c3_archive_rows(s, c3_cold_candidates(s, now))

RECURSIVE lsh_rebuild(_, _, _)
lsh_rebuild(lsh, rows, ids) ==
    IF ids = {} THEN lsh
    ELSE LET c == CHOOSE x \in ids : TRUE
         IN  lsh_rebuild(lsh_insert(lsh, c, to_unsigned64(rows[c].simhash)), rows, ids \ {c})

c3_rebuild_lsh_index(s) ==
    [s EXCEPT !.lsh = lsh_rebuild(NewLSHIndex, s.rows,
                                  {c \in DOMAIN s.rows : s.rows[c].tier # "cold"})]

(* the row sets "WHERE ref_count >= ? ORDER BY ref_count DESC LIMIT ?"    *)
(* can return: SQLite leaves the order of equal ref_counts open           *)
HotLoads(s) ==
    LET eligible == {c \in DOMAIN s.rows : s.rows[c].ref_count >= HOT_MIN_REF_COUNT}
    IN  {H \in SUBSET eligible :
           /\ Cardinality(H) = Min2(Cardinality(eligible), HOT_MAX_CHUNKS)
           /\ \A h \in H, o \in eligible \ H : s.rows[h].ref_count >= s.rows[o].ref_count}

c3_load_hot_tier(s, H) ==
    c3_commit([s EXCEPT
                 !.hot = [c \in (DOMAIN s.hot) \cup H |->
                            IF c \in H
                            THEN c3_row_entry(s, c, s.rows[c].ref_count, s.rows[c].last_access)
                            ELSE s.hot[c]],
                 !.rows = [c \in DOMAIN s.rows |->
                             IF c \in H THEN [s.rows[c] EXCEPT !.tier = "hot"]
                             ELSE s.rows[c]]])

(* close(), which drops what was not committed and all of the memory,     *)
(* then C3CogStore(db_path) on the same file                              *)
c3_close(s) ==
    [s EXCEPT !.rows = [c \in DOMAIN s.rows |->
                          [s.rows[c] EXCEPT !.tier = s.saved_tier[c]]],
              !.hot = EmptyFn,
              !.lsh = NewLSHIndex]

c3_open(s, H) == c3_load_hot_tier(c3_rebuild_lsh_index(s), H)

(* ---------------------------------------------------------------------- *)
(* integrity.py: IntegrityVerifier.check_ref_count.  Nothing in codec.py  *)
(* or streaming.py calls it.                                              *)
(* ---------------------------------------------------------------------- *)
check_ref_count(ref_count) == ref_count <= MAX_REF_COUNT_FOR_SIMILARITY

(* ---------------------------------------------------------------------- *)
(* Inputs                                                                 *)
(* ---------------------------------------------------------------------- *)
Bytes == {0, 1}

(* Payloads of the batch encoder: the empty payload, single-chunk and     *)
(* two-chunk payloads (0,0 closes a chunk), near-duplicates of each other.*)
Payloads ==
    { <<>>,
      <<1, 1, 0>>,
      <<1, 1, 1>>,
      <<0, 0, 1, 1, 0, 1>>,
      <<0, 0, 1, 1, 0>> }

StoreData == { <<1, 1, 0>> }

(* ---------------------------------------------------------------------- *)
(* State                                                                  *)
(* ---------------------------------------------------------------------- *)
VARIABLES
    store,      \* the MemoryCogStore
    cache,      \* PredictiveCompressor._dict_cache
    clock,      \* time.time()
    blobs,      \* every (payload, blob) an encode has returned; at: which encode it was
    last,       \* the last call and what it returned
    nEnc,       \* encode calls made
    nSto,       \* direct store() calls made
    cdc,        \* one content_defined_chunks call: its input and what it returned
    stream,     \* the CogdedupStream object
    sctx,       \* the stream's predictor setting, the store it started on, the bytes fed
    scall,      \* the last call on the stream and what it returned
    fed,        \* the federation: the shared store and every agent's FederatedStore
    fblobs,     \* every (agent, payload, blob) an encode through a FederatedStore returned
    nFed,       \* store() and encode calls made through FederatedStores
    fret,       \* per (agent, data): the (chunk_id, ref_count) its store() calls returned
    c3,         \* the C3CogStore: its SQLite tables and its in-memory caches
    c3clock,    \* time.time() as the C3CogStore sees it
    c3call,     \* the last call on the C3CogStore and what it returned
    nC3,        \* store() and lookup_exact() calls made on the C3CogStore
    thr,        \* per thread: where it is inside MemoryCogStore.store and its locals
    issued,     \* every (data, chunk_id) a thread's store() call has returned
    uses,       \* the triggers in the predictor's cache, least recently used first
    lsh,        \* an LSHIndex used on its own
    lshret,     \* the last call on the LSHIndex and what it returned
    anom,       \* the AnomalyDetector
    observed,   \* every ratio observe() was called with, in call order
    data_chunks,    \* MemoryCogStore._data_chunks
    memory_chunks,  \* the C3CogStore's memory_chunks table
    regs,       \* register_data_chunks calls made on the two stores
    duo,        \* two CogdedupStreams on the one store
    dfed        \* per stream: the bytes fed to it and what its finish() returned

memVars == <<store, cache, clock, blobs, last, nEnc, nSto>>

cdcVars == <<cdc>>

streamVars == <<stream, sctx, scall>>

fedVars == <<fed, fblobs, nFed, fret>>

c3Vars == <<c3, c3clock, c3call, nC3>>

thrVars == <<thr, issued>>

usesVars == <<uses>>

lshVars == <<lsh, lshret>>

anomVars == <<anom, observed>>

regVars == <<data_chunks, memory_chunks, regs>>

duoVars == <<duo, dfed>>

(* the components that are exercised on their own *)
unitVars == <<lshVars, anomVars, regVars, duoVars>>

beside_anom == <<memVars, cdcVars, streamVars, fedVars, c3Vars, thrVars, usesVars,
                 lshVars, regVars, duoVars>>

beside_lsh == <<memVars, cdcVars, streamVars, fedVars, c3Vars, thrVars, usesVars,
                anomVars, regVars, duoVars>>

vars == <<store, cache, clock, blobs, last, nEnc, nSto, cdc, stream, sctx, scall,
          fed, fblobs, nFed, fret, c3, c3clock, c3call, nC3, thr, issued,
          uses, lsh, lshret, anom, observed, data_chunks, memory_chunks, regs,
          duo, dfed>>

(* what the calls on the store and the codec leave alone *)
besideMem == <<cdcVars, streamVars, fedVars, c3Vars, thrVars, usesVars, unitVars>>

NoChunking == [input |-> <<>>, chunks |-> <<>>, done |-> FALSE]

CdcIdle == cdc = NoChunking

NoStreamCall == [op |-> "none", error |-> "none", blob |-> <<>>, stats |-> ZeroStats,
                 before |-> NewStream]

NoStreamCtx == [usePred |-> FALSE, begun |-> FALSE, st0 |-> NewMemoryCogStore,
                cache0 |-> <<>>, fed |-> <<>>, finishes |-> 0]

StreamIdle ==
    /\ stream = NewStream
    /\ sctx = NoStreamCtx
    /\ scall = NoStreamCall

(* op: the call; cid, found, entry: the chunk it was about and the entry  *)
(* it returned; ref_before: the chunk's ref_count as get() showed it      *)
(* before the call.                                                       *)
NoC3Call == [op |-> "none", cid |-> 0 - 1, found |-> FALSE, entry |-> NoEntry,
             ref_before |-> 0]

(* C3CogStore(db_path) on a new database file *)
C3Idle ==
    /\ c3 = NewC3CogStore
    /\ c3clock = 1
    /\ c3call = NoC3Call
    /\ nC3 = 0

Threads == {"t1", "t2"}

(* pc: the statement of MemoryCogStore.store the thread executes next;    *)
(* data, sha, cid, tmp: its locals; calls: the store() calls it has made. *)
NoThread == [pc |-> "idle", data |-> <<>>, sha |-> sha256_hash(<<>>), cid |-> 0 - 1,
             tmp |-> 0, calls |-> 0]

ThrIdle ==
    /\ thr = [t \in Threads |-> NoThread]
    /\ issued = {}

UsesIdle == uses = <<>>

(* op: the call; simhash, threshold: a query's arguments; ret: what it    *)
(* returned, -1 for None; raised: it ended in a KeyError; calls: the      *)
(* insert, remove and rebuild calls made so far.                          *)
NoLshCall == [op |-> "none", simhash |-> 0, threshold |-> 0, ret |-> 0 - 1,
              raised |-> FALSE, calls |-> 0]

LshIdle ==
    /\ lsh = NewLSHIndex
    /\ lshret = NoLshCall

(* AnomalyDetector(window_size): z_threshold_low and z_threshold_high are *)
(* the defaults.  ret is what the last observe() returned: TRUE an alert, *)
(* FALSE None.                                                            *)
NewAnomalyDetector(window_size) ==
    [window_size |-> window_size, history |-> <<>>, alerts |-> 0,
     observation_count |-> 0, ret |-> FALSE, scored |-> <<>>]

AnomIdle ==
    /\ anom = NewAnomalyDetector(WINDOW_SIZE)
    /\ observed = <<>>

RegIdle ==
    /\ data_chunks = EmptyFn
    /\ memory_chunks = {}
    /\ regs = 0

DuoIdle ==
    /\ duo = <<>>
    /\ dfed = <<>>

UnitIdle == LshIdle /\ AnomIdle /\ RegIdle /\ DuoIdle

Agents == {"agent-a", "agent-b"}

(* CogstoreFederation with create_agent_store() called for every agent *)
FedInit ==
    /\ fed = [shared |-> NewMemoryCogStore,
              agents |-> [a \in Agents |->
                            [local |-> NewMemoryCogStore, promoted |-> {},
                             id_remap |-> EmptyFn]]]
    /\ fblobs = {}
    /\ nFed = 0
    /\ fret = EmptyFn

(* op: the call; again: an encode of the payload the call before encoded; *)
(* size_before: chunks in the store when the call began.                  *)
NoCall == [op |-> "none", payload |-> <<>>, blob |-> <<>>, stats |-> ZeroStats,
           raised |-> FALSE, again |-> FALSE, size_before |-> 0]

MemInit ==
    /\ store = NewMemoryCogStore
    /\ cache = <<>>
    /\ clock = 0
    /\ blobs = {}
    /\ last = NoCall
    /\ nEnc = 0
    /\ nSto = 0

(* cogdedup_encode(x, store, predictor=...) *)
EncodeReturn(x, r) ==
    /\ store' = r.st
    /\ cache' = r.cache
    /\ blobs' = IF r.raised THEN blobs
                ELSE blobs \cup {[payload |-> x, blob |-> r.blob, at |-> nEnc + 1]}
    /\ last' = [op |-> "encode", payload |-> x, blob |-> r.blob, stats |-> r.stats,
                raised |-> r.raised,
                again |-> (last.op = "encode" /\ ~last.raised /\ last.payload = x),
                size_before |-> Cardinality(DOMAIN store.by_id)]

EncodeCall(x, usePred, limit) ==
    /\ nEnc < limit
    /\ EncodeReturn(x, cogdedup_encode(x, store, cache, usePred, "", clock))
    /\ nEnc' = nEnc + 1
    /\ UNCHANGED <<clock, nSto>>
    /\ UNCHANGED besideMem

(* cogdedup_encode(x, store) with no predictor *)
Encode(x) == EncodeCall(x, FALSE, MaxCalls - nSto)

(* cogdedup_decode(blob, store) of a blob an earlier encode returned *)
Decode(b) ==
    /\ store' = cogdedup_decode(b.blob, store).st
    /\ last' = NoCall
    /\ UNCHANGED <<cache, clock, blobs, nEnc, nSto>>
    /\ UNCHANGED besideMem

(* store.store(data) called directly *)
Store(data) ==
    /\ nEnc + nSto < MaxCalls
    /\ store' = mem_store(store, data, clock).st
    /\ last' = NoCall
    /\ nSto' = nSto + 1
    /\ UNCHANGED <<cache, clock, blobs, nEnc>>
    /\ UNCHANGED besideMem

(* store._archive_cold() run as a maintenance call *)
ArchiveCold ==
    /\ store' = archive_cold(store, clock)
    /\ store' # store
    /\ last' = NoCall
    /\ UNCHANGED <<cache, clock, blobs, nEnc, nSto>>
    /\ UNCHANGED besideMem

(* predictor._dict_cache.clear() *)
ClearCache ==
    /\ cache # <<>>
    /\ cache' = <<>>
    /\ last' = NoCall
    /\ UNCHANGED <<store, clock, blobs, nEnc, nSto>>
    /\ UNCHANGED besideMem

(* wall-clock time passes *)
Tick ==
    /\ clock < MaxClock
    /\ clock' = clock + 1
    /\ last' = NoCall
    /\ UNCHANGED <<store, cache, blobs, nEnc, nSto>>
    /\ UNCHANGED besideMem

MemNext ==
    \/ \E x \in Payloads : Encode(x)
    \/ \E b \in blobs : Decode(b)
    \/ \E d \in StoreData : Store(d)
    \/ ArchiveCold
    \/ Tick

Init ==
    /\ MemInit /\ CdcIdle /\ StreamIdle /\ FedInit /\ C3Idle /\ ThrIdle /\ UsesIdle
    /\ UnitIdle
Next == MemNext
Spec == Init /\ [][Next]_vars

(* Store states reachable by encodes alone: no direct store() call and    *)
(* no archival run other than the one store() starts itself.              *)
PlainPayloads == Payloads \cup { <<1, 1, 0, 0>> }

PlainEncode(x) == EncodeCall(x, FALSE, MaxPlainEncodes)

PlainNext ==
    \/ \E x \in PlainPayloads : PlainEncode(x)
    \/ \E b \in blobs : Decode(b)
    \/ Tick

SpecPlain == Init /\ [][PlainNext]_vars

(* The chunker alone: one call of content_defined_chunks on any input of *)
(* up to MaxChunkInput bytes.                                             *)
ChunkBytes == {0, 1, 2}

ChunkInputs == SeqsUpTo(ChunkBytes, MaxChunkInput)

ChunkInit ==
    /\ MemInit
    /\ cdc \in {[NoChunking EXCEPT !.input = x] : x \in ChunkInputs}
    /\ StreamIdle
    /\ FedInit
    /\ C3Idle
    /\ ThrIdle
    /\ UsesIdle
    /\ UnitIdle

Chunk ==
    /\ ~cdc.done
    /\ cdc' = [cdc EXCEPT !.chunks = content_defined_chunks(cdc.input), !.done = TRUE]
    /\ UNCHANGED <<memVars, streamVars, fedVars, c3Vars, thrVars, usesVars, unitVars>>

ChunkNext == Chunk

SpecChunk == ChunkInit /\ [][ChunkNext]_vars

(* One CogdedupStream on a store that earlier encodes may have filled.    *)
(* sctx keeps the store and cache the stream's first call found, and the  *)
(* bytes fed while Open, for the batch encode of the same input.          *)
StreamPayloads == { <<0, 0, 1, 1, 0, 1>>, <<1, 1, 0>>, <<1, 0, 0, 1, 1, 0>> }

FeedPieces == SeqsUpTo(Bytes, MaxPiece)

StreamInit ==
    /\ MemInit
    /\ CdcIdle
    /\ stream = NewStream
    /\ sctx \in {[NoStreamCtx EXCEPT !.usePred = p] : p \in BOOLEAN}
    /\ scall = NoStreamCall
    /\ FedInit
    /\ C3Idle
    /\ ThrIdle
    /\ UsesIdle
    /\ UnitIdle

Begin(ctx) ==
    IF ctx.begun THEN ctx
    ELSE [ctx EXCEPT !.begun = TRUE, !.st0 = store, !.cache0 = cache]

(* an encode on the store before the stream's first call *)
WarmUp(x) ==
    /\ ~sctx.begun
    /\ EncodeCall(x, sctx.usePred, MaxWarmUps)

(* stream.feed(piece) *)
FeedReturn(piece, r, c) ==
    /\ stream' = r.stm
    /\ store' = r.st
    /\ cache' = r.cache
    /\ sctx' = IF stream.finished THEN c ELSE [c EXCEPT !.fed = @ \o piece]
    /\ scall' = [op |-> "feed", error |-> r.error, blob |-> <<>>,
                 stats |-> ZeroStats, before |-> stream]

Feed(piece) ==
    /\ Len(sctx.fed) + Len(piece) <= MaxStreamLen
    /\ FeedReturn(piece,
                  stream_feed(stream, store, cache, piece, sctx.usePred, clock),
                  Begin(sctx))
    /\ UNCHANGED <<clock, blobs, last, nEnc, nSto, cdcVars, fedVars, c3Vars, thrVars, usesVars, unitVars>>

(* stream.finish() *)
FinishReturn(r, c) ==
    /\ stream' = r.stm
    /\ store' = r.st
    /\ cache' = r.cache
    /\ sctx' = IF r.error = "none" THEN [c EXCEPT !.finishes = @ + 1] ELSE c
    /\ scall' = [op |-> "finish", error |-> r.error, blob |-> r.blob,
                 stats |-> r.stats, before |-> stream]

Finish ==
    /\ FinishReturn(stream_finish(stream, store, cache, sctx.usePred, "", clock),
                    Begin(sctx))
    /\ UNCHANGED <<clock, blobs, last, nEnc, nSto, cdcVars, fedVars, c3Vars, thrVars, usesVars, unitVars>>

StreamNext ==
    \/ \E x \in StreamPayloads : WarmUp(x)
    \/ \E piece \in FeedPieces : Feed(piece)
    \/ Finish

SpecStream == StreamInit /\ [][StreamNext]_vars

(* A federation of two agents over one shared store.                      *)
FedPayloads == { <<1, 1, 0>>, <<0, 0>>, <<0, 0, 1, 1, 1>> }

FedStoreData == { <<1, 1, 0>>, <<0, 0>> }

(* the FederatedStore object of an agent, and the federation after a call *)
(* on it                                                                  *)
AgentStore(a) ==
    [kind |-> "fed", local |-> fed.agents[a].local, shared |-> fed.shared,
     promoted |-> fed.agents[a].promoted, id_remap |-> fed.agents[a].id_remap]

FedAfter(a, f) ==
    [shared |-> f.shared,
     agents |-> [fed.agents EXCEPT ![a] = [local |-> f.local, promoted |-> f.promoted,
                                           id_remap |-> f.id_remap]]]

(* agent_store.store(data) *)
FedStoreReturn(a, data, r) ==
    /\ fed' = FedAfter(a, r.st)
    /\ fret' = Put(fret, <<a, data>>,
                   Append(IF <<a, data>> \in DOMAIN fret THEN fret[<<a, data>>] ELSE <<>>,
                          [chunk_id |-> r.entry.chunk_id, ref_count |-> r.entry.ref_count]))

FedStore(a, data) ==
    /\ nFed < MaxFedOps
    /\ FedStoreReturn(a, data, fed_store(AgentStore(a), data, clock))
    /\ nFed' = nFed + 1
    /\ UNCHANGED <<fblobs, memVars, cdcVars, streamVars, c3Vars, thrVars, usesVars, unitVars>>

(* cogdedup_encode(x, agent_store) *)
FedEncodeReturn(a, x, r) ==
    /\ fed' = FedAfter(a, r.st)
    /\ fblobs' = IF r.raised THEN fblobs
                 ELSE fblobs \cup {[agent |-> a, payload |-> x, blob |-> r.blob]}

FedEncode(a, x) ==
    /\ nFed < MaxFedOps
    /\ FedEncodeReturn(a, x, cogdedup_encode(x, AgentStore(a), <<>>, FALSE, "", clock))
    /\ nFed' = nFed + 1
    /\ UNCHANGED <<fret, memVars, cdcVars, streamVars, c3Vars, thrVars, usesVars, unitVars>>

(* cogdedup_decode(blob, agent_store) by the agent that encoded the blob *)
FedDecode(b) ==
    /\ fed' = FedAfter(b.agent, cogdedup_decode(b.blob, AgentStore(b.agent)).st)
    /\ UNCHANGED <<fblobs, nFed, fret, memVars, cdcVars, streamVars, c3Vars, thrVars, usesVars, unitVars>>

FedNext ==
    \/ \E a \in Agents, d \in FedStoreData : FedStore(a, d)
    \/ \E a \in Agents, x \in FedPayloads : FedEncode(a, x)
    \/ \E b \in fblobs : FedDecode(b)

SpecFed == Init /\ [][FedNext]_vars

(* Every encode is given the predictor (the S4 scenario). *)
PredPayloads ==
    { <<1, 1, 0>>,
      <<0, 0, 1, 1, 0, 1>>,
      <<0, 0, 1, 1, 0>>,
      <<0, 0, 1, 1, 1>> }

PredEncode(x) == EncodeCall(x, TRUE, MaxPredEncodes)

PredNext ==
    \/ \E x \in PredPayloads : PredEncode(x)
    \/ \E b \in blobs : Decode(b)
    \/ ArchiveCold
    \/ ClearCache
    \/ Tick

SpecPred == Init /\ [][PredNext]_vars

(* cogdedup_decode of a one-chunk blob whose PRED_DELTA token lists two   *)
(* dictionary ids: a chunk c of the store, whose data is the dictionary   *)
(* the chunk x was compressed with, and an id the store never assigned.   *)
ListedEncode(x) == EncodeCall(x, TRUE, MaxListedEncodes)

ListedChunks == { <<1, 1, 0>>, <<0, 0, 1>> }

ListedIds(c, unknown_first) ==
    IF unknown_first THEN <<store.next_id, c>> ELSE <<c, store.next_id>>

DecodeListedReturn(blob, r) ==
    /\ store' = r.st
    /\ last' = [NoCall EXCEPT !.op = "decode", !.blob = blob, !.payload = r.data,
                              !.raised = ~r.ok]

DecodeListed(c, unknown_first, x) ==
    /\ Truthy(store.by_id[c].data)
    /\ DecodeListedReturn(
         assemble(1, <<pred_token_of(store.by_id[c].data, ListedIds(c, unknown_first), x)>>),
         cogdedup_decode(
           assemble(1, <<pred_token_of(store.by_id[c].data, ListedIds(c, unknown_first), x)>>),
           store))
    /\ UNCHANGED <<cache, clock, blobs, nEnc, nSto>>
    /\ UNCHANGED besideMem

ListedNext ==
    \/ \E x \in PredPayloads : ListedEncode(x)
    \/ \E c \in DOMAIN store.by_id, f \in BOOLEAN, x \in ListedChunks :
         DecodeListed(c, f, x)

SpecListed == Init /\ [][ListedNext]_vars

(* ---------------------------------------------------------------------- *)
(* One C3CogStore over one database file, driven by one caller            *)
(* ---------------------------------------------------------------------- *)
C3Data == { <<1, 1, 0>>, <<0, 0>>, <<1, 1, 0, 0>> }

beside_c3 == <<memVars, cdcVars, streamVars, fedVars, thrVars, usesVars, unitVars>>

C3Return(op, r, ref_before) ==
    /\ c3' = r.st
    /\ c3call' = [op |-> op, cid |-> r.entry.chunk_id, found |-> r.found,
                  entry |-> r.entry, ref_before |-> ref_before]

(* the ref_count get() shows for the chunk with this digest, 0 without one *)
RefSeen(s, sha) ==
    IF RowIdOf(s, sha) = 0 - 1 THEN 0 ELSE c3_get(s, RowIdOf(s, sha)).entry.ref_count

C3Store(d) ==
    /\ nC3 < MaxC3Ops
    /\ C3Return("store", c3_store(c3, d, c3clock), RefSeen(c3, sha256_hash(d)))
    /\ nC3' = nC3 + 1
    /\ UNCHANGED <<c3clock, beside_c3>>

C3LookupExact(d) ==
    /\ nC3 < MaxC3Ops
    /\ C3Return("lookup_exact", c3_lookup_exact(c3, sha256_hash(d), c3clock),
                RefSeen(c3, sha256_hash(d)))
    /\ nC3' = nC3 + 1
    /\ UNCHANGED <<c3clock, beside_c3>>

C3LookupSimilar(d) ==
    /\ C3Return("lookup_similar", c3_lookup_similar(c3, simhash64(d)), 0)
    /\ UNCHANGED <<c3clock, nC3, beside_c3>>

C3Get(cid) ==
    /\ C3Return("get", c3_get(c3, cid), 0)
    /\ UNCHANGED <<c3clock, nC3, beside_c3>>

C3Archive ==
    /\ c3' = c3_archive_cold_chunks(c3, c3clock)
    /\ c3call' = [NoC3Call EXCEPT !.op = "archive"]
    /\ UNCHANGED <<c3clock, nC3, beside_c3>>

C3Reopen ==
    /\ \E H \in HotLoads(c3_close(c3)) : c3' = c3_open(c3_close(c3), H)
    /\ c3call' = [NoC3Call EXCEPT !.op = "reopen"]
    /\ UNCHANGED <<c3clock, nC3, beside_c3>>

C3Tick ==
    /\ c3clock < MaxC3Clock
    /\ c3clock' = c3clock + 1
    /\ c3call' = NoC3Call
    /\ UNCHANGED <<c3, nC3, beside_c3>>

C3Next ==
    \/ \E d \in C3Data : C3Store(d)
    \/ \E d \in C3Data : C3LookupExact(d)
    \/ \E d \in C3Data : C3LookupSimilar(d)
    \/ \E cid \in DOMAIN c3.rows : C3Get(cid)
    \/ C3Archive
    \/ C3Reopen
    \/ C3Tick

SpecC3 == Init /\ [][C3Next]_vars

(* ---------------------------------------------------------------------- *)
(* Two threads calling store() on one MemoryCogStore.  The class holds no *)
(* lock, so a thread can be preempted between any two statements of       *)
(* store(); each action below is one statement (the read and the write of *)
(* `self._next_id += 1` are two).                                         *)
(* ---------------------------------------------------------------------- *)
ThreadData == { <<1, 1, 0>>, <<0, 0>> }

beside_thr ==
    <<cache, clock, blobs, last, nEnc, nSto, cdcVars, streamVars, fedVars, c3Vars, usesVars, unitVars>>

ThrGoto(t, pc) == thr' = [thr EXCEPT ![t].pc = pc]

(* the call returns entry cid *)
ThrReturn(t) ==
    /\ thr' = [thr EXCEPT ![t].pc = "idle"]
    /\ issued' = issued \cup { <<thr[t].data, thr[t].cid>> }

(* store(data): sha = sha256_hash(data) *)
ThrCall(t, d) ==
    /\ thr[t].pc = "idle"
    /\ thr[t].calls < MaxThreadCalls
    /\ thr' = [thr EXCEPT ![t] = [NoThread EXCEPT !.pc = "lookup", !.data = d,
                                                  !.sha = sha256_hash(d),
                                                  !.calls = thr[t].calls + 1]]
    /\ UNCHANGED <<store, issued, beside_thr>>

(* existing = self._by_sha.get(sha) *)
ThrLookup(t) ==
    /\ thr[t].pc = "lookup"
    /\ thr' = IF thr[t].sha \in DOMAIN store.by_sha
              THEN [thr EXCEPT ![t].pc = "existing", ![t].cid = store.by_sha[thr[t].sha]]
              ELSE [thr EXCEPT ![t].pc = "read_id"]
    /\ UNCHANGED <<store, issued, beside_thr>>

(* if existing is not None: inflate, ref_count += 1, last_access, return *)
ThrExisting(t) ==
    /\ thr[t].pc = "existing"
    /\ LET cid == thr[t].cid
           st1 == IF store.by_id[cid].data = None /\ cid \in DOMAIN store.cold_archive
                  THEN [store EXCEPT !.by_id[cid].data = zlib_decompress(store.cold_archive[cid]),
                                     !.cold_archive = Drop(@, cid)]
                  ELSE store
       IN  store' = [st1 EXCEPT !.by_id[cid].ref_count = @ + 1,
                                !.by_id[cid].last_access = clock]
    /\ ThrReturn(t)
    /\ UNCHANGED beside_thr

(* cid = self._next_id *)
ThrReadId(t) ==
    /\ thr[t].pc = "read_id"
    /\ thr' = [thr EXCEPT ![t].pc = "load_id", ![t].cid = store.next_id]
    /\ UNCHANGED <<store, issued, beside_thr>>

(* self._next_id += 1: the read *)
ThrLoadId(t) ==
    /\ thr[t].pc = "load_id"
    /\ thr' = [thr EXCEPT ![t].pc = "store_id", ![t].tmp = store.next_id]
    /\ UNCHANGED <<store, issued, beside_thr>>

(* self._next_id += 1: the write *)
ThrStoreId(t) ==
    /\ thr[t].pc = "store_id"
    /\ store' = [store EXCEPT !.next_id = thr[t].tmp + 1]
    /\ ThrGoto(t, "by_id")
    /\ UNCHANGED <<issued, beside_thr>>

(* sh, now, entry = ChunkEntry(...); self._by_id[cid] = entry *)
ThrById(t) ==
    /\ thr[t].pc = "by_id"
    /\ store' = [store EXCEPT !.by_id = Put(@, thr[t].cid,
                                  ChunkEntry(thr[t].cid, thr[t].sha, simhash64(thr[t].data),
                                             thr[t].data, 1, clock))]
    /\ ThrGoto(t, "by_sha")
    /\ UNCHANGED <<issued, beside_thr>>

(* self._by_sha[sha] = entry *)
ThrBySha(t) ==
    /\ thr[t].pc = "by_sha"
    /\ store' = [store EXCEPT !.by_sha = Put(@, thr[t].sha, thr[t].cid)]
    /\ ThrGoto(t, "lsh")
    /\ UNCHANGED <<issued, beside_thr>>

(* self._lsh.insert(cid, sh) *)
ThrLsh(t) ==
    /\ thr[t].pc = "lsh"
    /\ store' = [store EXCEPT !.lsh = lsh_insert(@, thr[t].cid, simhash64(thr[t].data))]
    /\ ThrGoto(t, "archive")
    /\ UNCHANGED <<issued, beside_thr>>

(* the auto-archive test, self._archive_cold(), return entry *)
ThrArchive(t) ==
    /\ thr[t].pc = "archive"
    /\ store' = IF Cardinality(DOMAIN store.by_id) > ARCHIVE_TRIGGER
                   /\ Cardinality(DOMAIN store.by_id) % ARCHIVE_MODULO = 0
                THEN archive_cold(store, clock)
                ELSE store
    /\ ThrReturn(t)
    /\ UNCHANGED beside_thr

ThreadsNext ==
    \/ \E t \in Threads, d \in ThreadData : ThrCall(t, d)
    \/ \E t \in Threads : ThrLookup(t)
    \/ \E t \in Threads : ThrExisting(t)
    \/ \E t \in Threads : ThrReadId(t)
    \/ \E t \in Threads : ThrLoadId(t)
    \/ \E t \in Threads : ThrStoreId(t)
    \/ \E t \in Threads : ThrById(t)
    \/ \E t \in Threads : ThrBySha(t)
    \/ \E t \in Threads : ThrLsh(t)
    \/ \E t \in Threads : ThrArchive(t)

SpecThreads == Init /\ [][ThreadsNext]_vars

(* ---------------------------------------------------------------------- *)
(* One PredictiveCompressor over one MemoryCogStore, its methods called   *)
(* directly.  uses lists the cached triggers in the order of their last   *)
(* use: the call that built the entry or the last call that hit it.       *)
(* ---------------------------------------------------------------------- *)
CacheData == { <<1, 1, 0>>, <<0, 0>>, <<1, 1, 1>> }

beside_cache == <<clock, blobs, last, nSto, cdcVars, streamVars, fedVars, c3Vars, thrVars,
                  unitVars>>

CacheTriggers(c) == { c[k].trigger : k \in 1..Len(c) }

(* uses after get_dictionary_and_ids(t) returned a dictionary and left the cache as c *)
Used(u, c, t) ==
    LET Kept(x) == x \in CacheTriggers(c) /\ x # t
    IN  Append(SelectSeq(u, Kept), t)

(* uses after a call that used no entry and left the cache as c *)
Unused(u, c) ==
    LET Kept(x) == x \in CacheTriggers(c)
    IN  SelectSeq(u, Kept)

(* uses after the warming loop of update_after_encode *)
RECURSIVE warm_uses(_, _, _, _)
warm_uses(u, c, s, cids) ==
    IF cids = <<>> THEN u
    ELSE IF CacheIndex(c, Head(cids)) # 0 THEN warm_uses(u, c, s, Tail(cids))
    ELSE LET r == get_dictionary_and_ids(c, s, Head(cids))
         IN  warm_uses(IF r.found THEN Used(u, r.cache, Head(cids)) ELSE Unused(u, r.cache),
                       r.cache, s, Tail(cids))

(* store.store(data) of a new chunk *)
CacheStore(d) ==
    /\ sha256_hash(d) \notin DOMAIN store.by_sha
    /\ Store(d)

(* store.record_cooccurrence(every chunk id of the store) *)
CacheCooccur ==
    /\ store.next_id >= 2
    /\ store.cooccurrence = EmptyFn
    /\ store' = mem_record_cooccurrence(store, [k \in 1..store.next_id |-> k - 1])
    /\ UNCHANGED <<cache, nEnc, uses, beside_cache>>

(* predictor.get_dictionary_and_ids(t) *)
GetDictionaryReturn(t, r) ==
    /\ cache' = r.cache
    /\ uses' = IF r.found THEN Used(uses, r.cache, t) ELSE Unused(uses, r.cache)

GetDictionary(t) ==
    /\ GetDictionaryReturn(t, get_dictionary_and_ids(cache, store, t))
    /\ UNCHANGED <<store, nEnc, beside_cache>>

(* predictor.update_after_encode(chunk_ids) *)
UpdateAfterEncodeReturn(chunk_ids, r) ==
    /\ cache' = r.cache
    /\ store' = r.st
    /\ uses' = IF Len(chunk_ids) < 2 THEN uses
               ELSE warm_uses(uses, cache, r.st,
                              SubSeq(chunk_ids, Max2(1, Len(chunk_ids) - WARM_LAST + 1),
                                     Len(chunk_ids)))

UpdateAfterEncode(chunk_ids) ==
    /\ nEnc < MaxCacheUpdates
    /\ UpdateAfterEncodeReturn(chunk_ids, update_after_encode(cache, store, chunk_ids))
    /\ nEnc' = nEnc + 1
    /\ UNCHANGED beside_cache

(* predictor.invalidate(chunk_id) *)
Invalidate(chunk_id) ==
    /\ cache' = invalidate(cache, chunk_id)
    /\ cache' # cache
    /\ uses' = Unused(uses, cache')
    /\ UNCHANGED <<store, nEnc, beside_cache>>

CacheNext ==
    \/ \E d \in CacheData : CacheStore(d)
    \/ CacheCooccur
    \/ \E t \in DOMAIN store.by_id : GetDictionary(t)
    \/ \E a, b \in DOMAIN store.by_id : UpdateAfterEncode(<<a, b>>)
    \/ \E c \in DOMAIN store.by_id : Invalidate(c)

SpecCache == Init /\ [][CacheNext]_vars

(* ---------------------------------------------------------------------- *)
(* Reading a blob's tokens (for the properties)                           *)
(* ---------------------------------------------------------------------- *)
RECURSIVE token_types(_, _, _, _)
token_types(blob, off, n, acc) ==
    IF n = 0 \/ off >= Len(blob) THEN acc
    ELSE LET t == blob[off + 1]
             a == decode_uvarint(blob, off + 1)
         IN  IF t = REF THEN token_types(blob, a.off, n - 1, Append(acc, t))
             ELSE IF t = FULL
             THEN token_types(blob, a.off + a.val, n - 1, Append(acc, t))
             ELSE IF t = DELTA
             THEN LET l == decode_uvarint(blob, a.off)
                  IN  token_types(blob, l.off + l.val, n - 1, Append(acc, t))
             ELSE LET ids == read_ids(blob, a.off, a.val, <<>>)
                      l == decode_uvarint(blob, ids.off)
                  IN  token_types(blob, l.off + l.val, n - 1, Append(acc, t))

TokenTypes(blob) ==
    IF Len(blob) < 6 THEN <<>>
    ELSE LET n == decode_uvarint(blob, 5) IN token_types(blob, n.off, n.val, <<>>)

HasToken(blob, t) == \E k \in 1..Len(TokenTypes(blob)) : TokenTypes(blob)[k] = t

(* ids listed by the PRED_DELTA tokens of a blob, and the ids any token   *)
(* of the blob resolves through the store                                 *)
RECURSIVE token_refs(_, _, _, _)
token_refs(blob, off, n, acc) ==
    IF n = 0 \/ off >= Len(blob) THEN acc
    ELSE LET t == blob[off + 1]
             a == decode_uvarint(blob, off + 1)
         IN  IF t = REF
             THEN token_refs(blob, a.off, n - 1, Append(acc, [type |-> t, ids |-> <<a.val>>]))
             ELSE IF t = FULL
             THEN token_refs(blob, a.off + a.val, n - 1, Append(acc, [type |-> t, ids |-> <<>>]))
             ELSE IF t = DELTA
             THEN LET l == decode_uvarint(blob, a.off)
                  IN  token_refs(blob, l.off + l.val, n - 1,
                                 Append(acc, [type |-> t, ids |-> <<a.val>>]))
             ELSE LET ids == read_ids(blob, a.off, a.val, <<>>)
                      l == decode_uvarint(blob, ids.off)
                  IN  token_refs(blob, l.off + l.val, n - 1,
                                 Append(acc, [type |-> t, ids |-> ids.ids]))

TokenRefs(blob) ==
    IF Len(blob) < 6 THEN <<>>
    ELSE LET n == decode_uvarint(blob, 5) IN token_refs(blob, n.off, n.val, <<>>)

RefIds(blob) == UNION {SeqToSet(TokenRefs(blob)[k].ids) : k \in 1..Len(TokenRefs(blob))}

PredIdLists(blob) ==
    {TokenRefs(blob)[k].ids : k \in {j \in 1..Len(TokenRefs(blob)) :
                                        TokenRefs(blob)[j].type = PRED_DELTA}}

DecodesTo(blob, payload, s) ==
    LET r == cogdedup_decode(blob, s) IN r.ok /\ r.data = payload

(* ---------------------------------------------------------------------- *)
(* Properties                                                             *)
(* ---------------------------------------------------------------------- *)

(* C1: on every store that earlier encodes produced, an encode of any    *)
(* payload returns a blob, and that blob decodes against the store to     *)
(* exactly the payload.                                                   *)
C1_EncodeThenDecode ==
    (last.op = "encode") =>
        /\ ~last.raised
        /\ DecodesTo(last.blob, last.payload, store)

(* what holds of C1: a blob that an encode did return decodes to the      *)
(* payload                                                                *)
C1_ReturnedBlobDecodes ==
    (last.op = "encode" /\ ~last.raised) => DecodesTo(last.blob, last.payload, store)

(* C2: a blob an agent encoded through its FederatedStore decodes,       *)
(* through that FederatedStore, to the payload, whatever store() and      *)
(* encode calls and promotions the federation's agents made since.        *)
C2_FedRoundTrip ==
    \A b \in fblobs : DecodesTo(b.blob, b.payload, AgentStore(b.agent))

(* what holds of C2: right after the encode, before any promotion         *)
C2_NoPromotionRoundTrip ==
    (DOMAIN fed.shared.by_id = {}) =>
        \A b \in fblobs : DecodesTo(b.blob, b.payload, AgentStore(b.agent))

C4_Addressable ==
    \A b \in blobs : DecodesTo(b.blob, b.payload, store)

C4_Witness ==
    /\ last.op = "encode"
    /\ \E b \in blobs :
         /\ b.at < nEnc
         /\ \E cid \in RefIds(b.blob) : store.by_id[cid].data = None
         /\ DecodesTo(b.blob, b.payload, store)

(* C7: an encode of the payload the call just before encoded emits only   *)
(* REF tokens and adds no chunk to the store.                             *)
C7_SecondAllRef ==
    (last.op = "encode" /\ last.again /\ ~last.raised) =>
        /\ last.stats.ref = last.stats.chunks
        /\ last.stats.full + last.stats.delta + last.stats.pred_delta = 0
        /\ \A k \in 1..Len(TokenTypes(last.blob)) : TokenTypes(last.blob)[k] = REF
        /\ Len(TokenTypes(last.blob)) = last.stats.chunks
        /\ Cardinality(DOMAIN store.by_id) = last.size_before

C7_Witness ==
    /\ last.op = "encode" /\ last.again /\ ~last.raised
    /\ last.stats.chunks >= 2
    /\ last.stats.ref = last.stats.chunks

(* C8: the empty payload encodes to the header alone (UCOG, version 2,    *)
(* n_chunks = 0) and that blob decodes to the empty byte sequence.        *)
C8_EmptyHeaderOnly ==
    (last.op = "encode" /\ last.payload = <<>> /\ ~last.raised) =>
        /\ last.blob = MAGIC \o <<VERSION, 0>>
        /\ DecodesTo(last.blob, <<>>, store)

(* C9: the chunks of an input, concatenated in order, are the input; the *)
(* empty input has no chunk.                                              *)
C9_ChunksReassemble ==
    cdc.done =>
        /\ Concat(cdc.chunks) = cdc.input
        /\ (cdc.input = <<>> => cdc.chunks = <<>>)

C9_Witness ==
    /\ cdc.done
    /\ Len(cdc.chunks) >= 3
    /\ Len(cdc.chunks[Len(cdc.chunks)]) < MIN_CHUNK
    /\ Concat(cdc.chunks) = cdc.input

(* C10 as stated: for an input of at least MIN bytes every chunk has a    *)
(* length in MIN..MAX.                                                    *)
C10_AllChunksInBounds ==
    (cdc.done /\ Len(cdc.input) >= MIN_CHUNK) =>
        \A k \in 1..Len(cdc.chunks) :
            /\ Len(cdc.chunks[k]) >= MIN_CHUNK
            /\ Len(cdc.chunks[k]) <= MAX_CHUNK

(* C10 amended: every chunk has a length in 1..MAX and every chunk but    *)
(* the last has a length of at least MIN.                                 *)
C10_ChunkBounds ==
    cdc.done =>
        \A k \in 1..Len(cdc.chunks) :
            /\ Len(cdc.chunks[k]) >= 1
            /\ Len(cdc.chunks[k]) <= MAX_CHUNK
            /\ (k < Len(cdc.chunks) => Len(cdc.chunks[k]) >= MIN_CHUNK)

C10_Witness ==
    /\ cdc.done
    /\ Len(cdc.input) >= MIN_CHUNK
    /\ \E k \in 1..Len(cdc.chunks) : Len(cdc.chunks[k]) = MAX_CHUNK
    /\ Len(cdc.chunks[Len(cdc.chunks)]) < MIN_CHUNK

(* the batch encode of the bytes fed to the stream, on the store and     *)
(* cache the stream started on                                            *)
BatchTwin == cogdedup_encode(sctx.fed, sctx.st0, sctx.cache0, sctx.usePred, "", clock)

(* C5: finish() returns the blob and the stats that cogdedup_encode       *)
(* returns for the concatenation of the fed bytes on a store in the same  *)
(* starting state with the same predictor setting.                        *)
C5_StreamEqualsBatch ==
    (scall.op = "finish" /\ scall.error = "none") =>
        /\ ~BatchTwin.raised
        /\ scall.blob = BatchTwin.blob
        /\ scall.stats = BatchTwin.stats

(* what holds of C5: the two encoders agree on every non-empty input      *)
C5_NonEmptyAgrees ==
    (scall.op = "finish" /\ scall.error = "none" /\ sctx.fed # <<>>) =>
        /\ ~BatchTwin.raised
        /\ scall.blob = BatchTwin.blob
        /\ scall.stats = BatchTwin.stats

(* C6: a feed() or finish() is refused with "stream already finished"     *)
(* exactly when the stream is Closed, and a refused call leaves tokens,   *)
(* chunk count, byte count and stats as they were; finish() on an Open    *)
(* stream closes it, feed() does not, and at most one finish() returns.   *)
C6_StreamProtocol ==
    /\ scall.op \in {"feed", "finish"} =>
           ((scall.error = "finished") <=> scall.before.finished)
    /\ scall.error = "finished" =>
           /\ stream.tokens = scall.before.tokens
           /\ stream.n_chunks = scall.before.n_chunks
           /\ stream.total_fed = scall.before.total_fed
           /\ stream.stats = scall.before.stats
           /\ stream.finished
    /\ (scall.op = "finish" /\ ~scall.before.finished) => stream.finished
    /\ (scall.op = "feed" /\ ~scall.before.finished) => ~stream.finished
    /\ (scall.op = "none") => ~stream.finished
    /\ sctx.finishes <= 1
    /\ (sctx.finishes = 1) => stream.finished

C6_Witness ==
    /\ scall.op = "feed"
    /\ scall.error = "finished"
    /\ sctx.finishes = 1
    /\ stream.n_chunks >= 2
    /\ stream.total_fed = Len(sctx.fed)

(* C11: in a MemoryCogStore no two entries share a sha256, the id map and *)
(* the sha map hold the same entries, and store(data) adds an entry       *)
(* exactly when no entry with sha256(data) exists.                        *)
ShaIndexSound(s) ==
    /\ \A c1, c2 \in DOMAIN s.by_id :
         s.by_id[c1].sha256 = s.by_id[c2].sha256 => c1 = c2
    /\ {s.by_sha[h] : h \in DOMAIN s.by_sha} = DOMAIN s.by_id
    /\ \A h \in DOMAIN s.by_sha : s.by_id[s.by_sha[h]].sha256 = h

StoreAddsIffNew(d) ==
    Store(d) =>
        IF \E c \in DOMAIN store.by_id : store.by_id[c].sha256 = sha256_hash(d)
        THEN DOMAIN store'.by_id = DOMAIN store.by_id
        ELSE Cardinality(DOMAIN store'.by_id) = Cardinality(DOMAIN store.by_id) + 1

C11_ShaUnique ==
    /\ [] ShaIndexSound(store)
    /\ [][\A d \in StoreData : StoreAddsIffNew(d)]_vars

(* a store() of data whose chunk was cold has run: the chunk left the     *)
(* archive, which only store() does, and its ref_count went up            *)
C11_Witness ==
    /\ nSto >= 1
    /\ Cardinality(DOMAIN store.by_id) >= 2
    /\ \E c \in DOMAIN store.cold_meta :
         /\ c \notin DOMAIN store.cold_archive
         /\ store.by_id[c].ref_count >= 2

(* C12: a store hands out chunk ids in increasing order: every step keeps *)
(* each id on the chunk it was given to, cold or not, and a new chunk     *)
(* gets an id above every id in use.                                      *)
IdsKept(s, t) ==
    \A c \in DOMAIN s.by_id :
        /\ c \in DOMAIN t.by_id
        /\ t.by_id[c].sha256 = s.by_id[c].sha256
        /\ t.by_id[c].chunk_id = c

IdsGrow(s, t) ==
    /\ \A c \in DOMAIN t.by_id \ DOMAIN s.by_id : \A o \in DOMAIN s.by_id : o < c
    /\ DOMAIN t.by_id = 0 .. (t.next_id - 1)

C12_IdsMonotonic == [][IdsKept(store, store') /\ IdsGrow(store, store')]_vars

(* an encode added a chunk, with no archival run inside it, to a store    *)
(* that holds a cold chunk: the new id was assigned after the chunk went  *)
(* cold                                                                   *)
C12_Witness ==
    /\ last.op = "encode"
    /\ ~last.raised
    /\ Cardinality(DOMAIN store.by_id) > last.size_before
    /\ \A n \in (last.size_before + 1) .. Cardinality(DOMAIN store.by_id) :
         ~(n > ARCHIVE_TRIGGER /\ n % ARCHIVE_MODULO = 0)
    /\ \E c \in DOMAIN store.by_id : store.by_id[c].data = None

(* C13: the store() calls one FederatedStore answered for the same data   *)
(* all returned the same chunk_id, and no ref_count below an earlier one, *)
(* whether the chunk was promoted between the calls or not.               *)
C13_FedStoreStable ==
    \A k \in DOMAIN fret :
        \A i, j \in 1..Len(fret[k]) :
            i < j => /\ fret[k][j].chunk_id = fret[k][i].chunk_id
                     /\ fret[k][j].ref_count >= fret[k][i].ref_count

(* what holds of C13: while the data is not in the shared store, the      *)
(* calls return one chunk_id and a ref_count that rises with every call   *)
C13_StableBeforePromotion ==
    \A k \in DOMAIN fret :
        (sha256_hash(k[2]) \notin DOMAIN fed.shared.by_sha) =>
            \A i, j \in 1..Len(fret[k]) :
                i < j => /\ fret[k][j].chunk_id = fret[k][i].chunk_id
                         /\ fret[k][j].ref_count > fret[k][i].ref_count

(* C14: a lookup_exact that finds a chunk raises the chunk's ref_count,   *)
(* as the next get shows it, by exactly 1.                                *)
C14_LookupCounts ==
    (c3call.op = "lookup_exact" /\ c3call.found) =>
        c3_get(c3, c3call.cid).entry.ref_count = c3call.ref_before + 1

(* C15: get(chunk_id) returns, for every id the store assigned, an entry  *)
(* whose data are the chunk's original bytes.                             *)
C15_GetReturnsBytes ==
    \A cid \in DOMAIN c3.rows :
        /\ c3_get(c3, cid).found
        /\ sha256_hash(c3_get(c3, cid).entry.data) = c3_get(c3, cid).entry.sha256

(* C16: a chunk of the MemoryCogStore whose data is cold is in no bucket  *)
(* of the LSH index, and lookup_similar returns no cold chunk.            *)
C16_ColdNotIndexed ==
    \A c \in DOMAIN store.by_id :
        store.by_id[c].data = None =>
            /\ c \notin DOMAIN store.lsh.simhashes
            /\ \A b \in BandIds, v \in BandVals : c \notin store.lsh.buckets[b][v]
            /\ \A x \in Payloads :
                 mem_lookup_similar(store, simhash64(x), clock).entry.chunk_id # c

(* the same of the C3CogStore: a lookup_similar that returned a chunk     *)
(* returned none whose row is in the cold tier                            *)
C16_C3ColdNotReturned ==
    (c3call.op = "lookup_similar" /\ c3call.found) => c3.rows[c3call.cid].tier # "cold"

(* C17: every chunk of the MemoryCogStore is in exactly one residency     *)
(* state, its bytes in the entry or, with empty entry data, in the cold   *)
(* archive; so stats() has warm_chunks + cold_chunks = unique_chunks.     *)
C17_OneResidency ==
    /\ \A c \in DOMAIN store.by_id :
         (store.by_id[c].data # None) # (c \in DOMAIN store.cold_archive)
    /\ mem_stats(store).warm_chunks + mem_stats(store).cold_chunks
         = mem_stats(store).unique_chunks

(* what holds of C17: every chunk's bytes are held somewhere, in the      *)
(* entry or in the cold archive                                           *)
C17_BytesHeld ==
    \A c \in DOMAIN store.by_id :
        store.by_id[c].data = None => c \in DOMAIN store.cold_archive

(* C18: a cogdedup_decode call leaves the store as it found it.           *)
C18_DecodeLeavesStore == [][\A b \in blobs : Decode(b) => store' = store]_vars

(* C19: the decode of a PRED_DELTA token that lists an id the store does  *)
(* not know fails.                                                        *)
C19_UnknownIdFails == (last.op = "decode") => last.raised

(* ---------------------------------------------------------------------- *)
(* C20: if cogdedup_encode fails part-way through a payload (a store      *)
(* operation or a compression step raises on a chunk after the first),    *)
(* the store contains none of the chunks that this call would have added: *)
(* after a raising encode the store holds exactly the chunks it held when *)
(* the call began.                                                        *)
(* ---------------------------------------------------------------------- *)
C20_AllOrNone ==
    (last.op = "encode" /\ last.raised)
        => Cardinality(DOMAIN store.by_id) = last.size_before

(* ---------------------------------------------------------------------- *)
(* C21: when two threads call store() concurrently on one MemoryCogStore, *)
(* writers are serialised: in every interleaving each chunk_id is         *)
(* assigned to exactly one chunk and there is at most one entry per       *)
(* sha256.  Stated on what the calls returned: two returned entries have  *)
(* the same chunk_id exactly when they hold the same data; and on the     *)
(* store: no two entries of the id map carry the same digest.             *)
(* ---------------------------------------------------------------------- *)
C21_WritersSerialised ==
    /\ \A p, q \in issued : (p[2] = q[2]) <=> (p[1] = q[1])
    /\ \A c, d \in DOMAIN store.by_id :
           store.by_id[c].sha256 = store.by_id[d].sha256 => c = d

(* ---------------------------------------------------------------------- *)
(* C22: after any FederatedStore operation returns (store, lookup_exact,  *)
(* or an encode made of them), every local chunk whose ref_count has      *)
(* reached promote_threshold is present in the shared store, so that the  *)
(* other agents' lookup_exact finds it.                                   *)
(* ---------------------------------------------------------------------- *)
C22_PromotedAtThreshold ==
    \A a \in Agents : \A c \in DOMAIN fed.agents[a].local.by_id :
        fed.agents[a].local.by_id[c].ref_count >= PROMOTE_THRESHOLD
            => fed.agents[a].local.by_id[c].sha256 \in DOMAIN fed.shared.by_sha

(* ---------------------------------------------------------------------- *)
(* C23: for two agents A and B of one federation, a chunk stored only     *)
(* through A and never promoted is invisible to B: B.lookup_exact(sha)    *)
(* returns None; and the shared store contains a chunk only if some agent *)
(* promoted it.                                                           *)
(* ---------------------------------------------------------------------- *)
Promoted == UNION { fed.agents[a].promoted : a \in Agents }

PrivateTo(a, b) ==
    { sha \in DOMAIN fed.agents[a].local.by_sha :
          sha \notin Promoted /\ sha \notin DOMAIN fed.agents[b].local.by_sha }

C23_LocalIsolation ==
    /\ DOMAIN fed.shared.by_sha \subseteq Promoted
    /\ \A a, b \in Agents : \A sha \in PrivateTo(a, b) :
           ~ fed_lookup_exact(AgentStore(b), sha, clock).found

C23_Witness ==
    \E a, b \in Agents :
        /\ a # b
        /\ PrivateTo(a, b) # {}
        /\ DOMAIN fed.shared.by_sha # {}
        /\ DOMAIN fed.agents[b].local.by_sha # {}
        /\ \A sha \in PrivateTo(a, b) : ~ fed_lookup_exact(AgentStore(b), sha, clock).found

(* ---------------------------------------------------------------------- *)
(* C24: a chunk is moved to cold by an archival run only if at that       *)
(* moment it is warm, its ref_count is at most 1, and it has not been     *)
(* accessed for at least the cold-age period.  For                        *)
(* C3CogStore.archive_cold_chunks: every row the run turns cold was a     *)
(* warm row of ref_count <= 1 last accessed COLD_MIN_AGE_SECONDS ago or   *)
(* earlier.                                                               *)
(* ---------------------------------------------------------------------- *)
C3TurnedCold == { c \in DOMAIN c3.rows : c3.rows[c].tier # "cold" /\ c3'.rows[c].tier = "cold" }

C24_ArchivePolicy ==
    [][C3Archive => \A c \in C3TurnedCold :
                        /\ c3.rows[c].tier = "warm"
                        /\ c3.rows[c].ref_count <= 1
                        /\ c3clock - c3.rows[c].last_access >= COLD_MIN_AGE_SECONDS]_vars

(* For MemoryCogStore._archive_cold the policy holds: every chunk the run *)
(* turns cold held its bytes, had ref_count <= COLD_REF_COUNT = 1 and was *)
(* last accessed more than COLD_AGE_SECONDS ago.                          *)
MemTurnedCold ==
    { c \in DOMAIN store.by_id : store.by_id[c].data # None /\ store'.by_id[c].data = None }

C24_MemArchivePolicy ==
    [][ArchiveCold => \A c \in MemTurnedCold :
                          /\ store.by_id[c].ref_count <= 1
                          /\ clock - store.by_id[c].last_access >= COLD_AGE_SECONDS]_vars

(* ---------------------------------------------------------------------- *)
(* C25: in C3CogStore the tier of a chunk changes only along warm to hot, *)
(* hot to warm, warm to cold and cold to warm: no store, lookup, get,     *)
(* archive or reopen moves a cold chunk directly into the hot tier or a   *)
(* hot chunk directly to cold.                                            *)
(* ---------------------------------------------------------------------- *)
TierStep(c, from, to) == c3.rows[c].tier = from /\ c3'.rows[c].tier = to

C25_TierTransitions ==
    [][\A c \in DOMAIN c3.rows : ~ TierStep(c, "cold", "hot") /\ ~ TierStep(c, "hot", "cold")]_vars

(* ---------------------------------------------------------------------- *)
(* C26: the encoder never emits a DELTA token whose base chunk has a      *)
(* ref_count above the security policy's ceiling                          *)
(* (max_ref_count_for_similarity): for every encode that returns a blob,  *)
(* the base of each DELTA token of the blob had, when the call began, a   *)
(* ref_count that check_ref_count accepts.                                *)
(* ---------------------------------------------------------------------- *)
DeltaBases(blob) ==
    { TokenRefs(blob)[k].ids[1] :
          k \in { j \in 1..Len(TokenRefs(blob)) : TokenRefs(blob)[j].type = DELTA } }

C26_DeltaBaseUnderCeiling ==
    [][\A x \in PlainPayloads :
          (PlainEncode(x) /\ ~ last'.raised)
              => \A c \in DeltaBases(last'.blob) \cap DOMAIN store.by_id :
                     check_ref_count(store.by_id[c].ref_count)]_vars

(* ---------------------------------------------------------------------- *)
(* C27: when the predictor cache is at capacity and a new trigger is      *)
(* inserted, the entry evicted is the least recently used one, where a    *)
(* cache hit in get_dictionary_and_ids counts as a use.                   *)
(* ---------------------------------------------------------------------- *)
InsertsAtCapacity(t) ==
    /\ GetDictionary(t)
    /\ Len(cache) >= DICT_CACHE_SIZE
    /\ t \notin CacheTriggers(cache)
    /\ t \in CacheTriggers(cache')

C27_EvictsLeastRecentlyUsed ==
    [][\A t \in DOMAIN store.by_id :
          InsertsAtCapacity(t)
              => CacheTriggers(cache) \ CacheTriggers(cache') = { Head(uses) }]_vars

(* ---------------------------------------------------------------------- *)
(* C28: for a PredictiveCompressor with capacity C >= 1, after any        *)
(* sequence of get_dictionary_and_ids, update_after_encode and invalidate *)
(* calls the cache holds at most C entries.                               *)
(* ---------------------------------------------------------------------- *)
C28_CacheBounded == Len(cache) <= DICT_CACHE_SIZE

(* the cache is full although a dictionary was built for every chunk of   *)
(* the store, which has more chunks than the cache has room for           *)
C28_Witness ==
    /\ Len(cache) = DICT_CACHE_SIZE
    /\ store.next_id > DICT_CACHE_SIZE
    /\ nEnc > 0
    /\ Head(uses) # Head(cache).trigger

(* ---------------------------------------------------------------------- *)
(* C29: for every chunk with no exact match, the token the encoder emits  *)
(* is no longer than any candidate token it produced for that chunk (FULL,*)
(* DELTA when a similar chunk exists, PRED_DELTA when a predicted         *)
(* dictionary exists); for a chunk with an exact match it always emits    *)
(* REF.  Checked chunk by chunk for every payload an encode with a        *)
(* predictor can be given in the current state.                           *)
(* ---------------------------------------------------------------------- *)
Candidates(chunk, similar, pred) ==
    { full_token_of(chunk) }
        \cup (IF similar.found THEN { delta_token_of(similar.entry, chunk) } ELSE {})
        \cup (IF pred.found THEN { pred_token_of(pred.dict, pred.ids, chunk) } ELSE {})

ChoiceOk(token, chunk, exact, similar, pred) ==
    IF exact.found THEN token = <<REF>> \o encode_uvarint(exact.entry.chunk_id)
    ELSE /\ token \in Candidates(chunk, similar, pred)
         /\ \A c \in Candidates(chunk, similar, pred) : Len(token) <= Len(c)

ChunkChoiceOk(acc, next, chunk, usePred, now, exact, similar) ==
    \/ next.raised
    \/ ChoiceOk(next.tokens[Len(next.tokens)], chunk, exact, similar,
                IF usePred /\ acc.ids # <<>>
                THEN get_dictionary_and_ids(acc.cache, similar.st, acc.ids[Len(acc.ids)])
                ELSE NoDict(acc.cache))

RECURSIVE SmallestChosen(_, _, _, _)
SmallestChosen(acc, chunks, usePred, now) ==
    \/ chunks = <<>>
    \/ acc.raised
    \/ /\ ChunkChoiceOk(acc, emit_chunk(acc, Head(chunks), usePred, now), Head(chunks),
                        usePred, now,
                        S_lookup_exact(acc.st, sha256_hash(Head(chunks)), now),
                        S_lookup_similar(S_lookup_exact(acc.st, sha256_hash(Head(chunks)), now).st,
                                         simhash64(Head(chunks)), now))
       /\ SmallestChosen(emit_chunk(acc, Head(chunks), usePred, now), Tail(chunks),
                         usePred, now)

TokenCount(blob, t) ==
    Cardinality({ k \in 1..Len(TokenTypes(blob)) : TokenTypes(blob)[k] = t })

StatsMatch(stats, blob) ==
    /\ stats.ref + stats.delta + stats.full + stats.pred_delta = stats.chunks
    /\ stats.chunks = decode_uvarint(blob, 5).val
    /\ stats.ref = TokenCount(blob, REF)
    /\ stats.delta = TokenCount(blob, DELTA)
    /\ stats.full = TokenCount(blob, FULL)
    /\ stats.pred_delta = TokenCount(blob, PRED_DELTA)

C30_StatsMatchTokens ==
    /\ (last.op = "encode" /\ ~ last.raised) => StatsMatch(last.stats, last.blob)
    /\ (scall.op = "finish" /\ scall.error = "none") => StatsMatch(scall.stats, scall.blob)

(* a batch encode and then a stream have both returned; the stream's blob *)
(* mixes token types                                                      *)
C30_Witness ==
    /\ last.op = "encode"
    /\ ~ last.raised
    /\ scall.op = "finish"
    /\ scall.error = "none"
    /\ scall.stats.chunks >= 2
    /\ scall.stats.ref >= 1
    /\ scall.stats.ref < scall.stats.chunks

(* ---------------------------------------------------------------------- *)
(* C31: record_cooccurrence(ids) increments the weight of each ordered    *)
(* pair (a, b) of distinct chunk ids occurring in ids by exactly 1 and    *)
(* never creates or increments an edge from a chunk to itself, also when  *)
(* ids contains the same chunk id more than once.                         *)
(* ---------------------------------------------------------------------- *)
Weight(s, a, b) ==
    IF a \in DOMAIN s.cooccurrence /\ IndexOf(s.cooccurrence[a], b) # 0
    THEN s.cooccurrence[a][IndexOf(s.cooccurrence[a], b)].n
    ELSE 0

PairsCountedOnce(a, b) ==
    /\ Weight(store', a, a) = 0
    /\ Weight(store', b, b) = 0
    /\ a # b => Weight(store', a, b) = Weight(store, a, b) + 1
    /\ a # b => Weight(store', b, a) = Weight(store, b, a) + 1

C31_PairsCountedOnce ==
    [][\A a, b \in DOMAIN store.by_id :
          UpdateAfterEncode(<<a, b>>) => PairsCountedOnce(a, b)]_vars

(* For a list of distinct ids record_cooccurrence does as stated. *)
C31_DistinctIdsCountedOnce ==
    [][\A a, b \in DOMAIN store.by_id :
          (a # b /\ UpdateAfterEncode(<<a, b>>) /\ Weight(store, a, a) = 0 /\ Weight(store, b, b) = 0)
              => PairsCountedOnce(a, b)]_vars

(* ---------------------------------------------------------------------- *)
(* C32: get_predicted_chunks(id, k) returns at most k neighbours of id    *)
(* ordered by descending edge weight, and among neighbours of equal       *)
(* weight the one with the lower chunk id comes first, whatever the order *)
(* in which the edges were recorded.                                      *)
(* ---------------------------------------------------------------------- *)
RankedBefore(s, id, p, q) ==
    \/ Weight(s, id, p.chunk_id) > Weight(s, id, q.chunk_id)
    \/ Weight(s, id, p.chunk_id) = Weight(s, id, q.chunk_id) /\ p.chunk_id < q.chunk_id

PredictedInOrder(s, id, k) ==
    LET r == mem_get_predicted_chunks(s, id, k)
    IN  /\ Len(r) <= k
        /\ \A i, j \in 1..Len(r) : i < j => RankedBefore(s, id, r[i], r[j])

C32_PredictedOrder ==
    \A id \in DOMAIN store.by_id : \A k \in 1..TOP_K : PredictedInOrder(store, id, k)

(* ---------------------------------------------------------------------- *)
(* An LSHIndex on its own: insert, remove, rebuild and the two queries.   *)
(* ---------------------------------------------------------------------- *)
SimHashes == 0..(Pow2(HASH_BITS) - 1)

(* the simhashes chunks are indexed under; queries range over SimHashes *)
LshHashes == {0, 1, 3, 5, 12}

LshIds == {0, 1}

LshThresholds == {1, SIMILARITY_THRESHOLD}

(* the (chunk_id, simhash) lists rebuild() is called with *)
LshEntries ==
    { <<>>, << <<0, 3>> >>, << <<0, 3>>, <<1, 12>> >>, << <<0, 3>>, <<0, 12>> >> }

(* LSHIndex.rebuild(entries): the buckets and the simhashes are emptied,  *)
(* then every entry is inserted in list order.                            *)
RECURSIVE rebuild_loop(_, _)
rebuild_loop(index, entries) ==
    IF entries = <<>> THEN index
    ELSE rebuild_loop(lsh_insert(index, entries[1][1], entries[1][2]), Tail(entries))

rebuild(entries) == rebuild_loop(NewLSHIndex, entries)

(* self._simhashes[cid] raises KeyError for a candidate without a stored  *)
(* simhash                                                                *)
nearest_raises(index, simhash) ==
    \E cid \in query_candidates(index, simhash) : cid \notin DOMAIN index.simhashes

LshMutation(op, index) ==
    /\ lshret.calls < MaxLshOps
    /\ lsh' = index
    /\ lshret' = [NoLshCall EXCEPT !.op = op, !.calls = lshret.calls + 1]

LshInsert(chunk_id, simhash) ==
    /\ LshMutation("insert", lsh_insert(lsh, chunk_id, simhash))
    /\ UNCHANGED beside_lsh

LshRemove(chunk_id) ==
    /\ LshMutation("remove", lsh_remove(lsh, chunk_id))
    /\ UNCHANGED beside_lsh

LshRebuild(entries) ==
    /\ LshMutation("rebuild", rebuild(entries))
    /\ UNCHANGED beside_lsh

LshQueryNearest(simhash, threshold) ==
    /\ lshret' = [op |-> "query_nearest", simhash |-> simhash, threshold |-> threshold,
                  ret |-> IF nearest_raises(lsh, simhash) THEN 0 - 1
                          ELSE query_nearest(lsh, simhash, threshold),
                  raised |-> nearest_raises(lsh, simhash),
                  calls |-> lshret.calls]
    /\ UNCHANGED lsh
    /\ UNCHANGED beside_lsh

LshNext ==
    \/ \E c \in LshIds, h \in LshHashes : LshInsert(c, h)
    \/ \E c \in LshIds : LshRemove(c)
    \/ \E e \in LshEntries : LshRebuild(e)
    \/ \E h \in SimHashes, t \in LshThresholds : LshQueryNearest(h, t)

SpecLsh == Init /\ [][LshNext]_vars

(* the least hamming distance from simhash to a candidate's stored simhash *)
NearestDistance(index, simhash) ==
    LET cands == query_candidates(index, simhash)
    IN  CHOOSE d \in 0..HASH_BITS :
            /\ \E c \in cands : hamming_distance(simhash, index.simhashes[c]) = d
            /\ \A c \in cands : hamming_distance(simhash, index.simhashes[c]) >= d

Answered == lshret.op = "query_nearest" /\ ~lshret.raised

(* the id query_nearest returned is a candidate at the least distance *)
ReturnsNearest ==
    (Answered /\ lshret.ret # 0 - 1) =>
        /\ lshret.ret \in query_candidates(lsh, lshret.simhash)
        /\ hamming_distance(lshret.simhash, lsh.simhashes[lshret.ret])
               = NearestDistance(lsh, lshret.simhash)

Bucketed(index, b, v) == index.buckets[b][v]

(* C36: after any insert, remove or rebuild, an id is in a bucket only if *)
(* it has a stored simhash, and then it is in exactly the buckets of that *)
(* simhash's bands, one per band, also when an id already present was     *)
(* inserted again with a different simhash.                               *)
C36_BucketsMatchSimhashes ==
    \A b \in BandIds : \A v \in BandVals : \A c \in LshIds :
        c \in Bucketed(lsh, b, v) <=>
            (c \in DOMAIN lsh.simhashes /\ extract_bands(lsh.simhashes[c])[b] = v)

(* the part of C36 that the code keeps: an id with a stored simhash is in *)
(* every bucket of that simhash's bands                                   *)
C36_StoredIdsAreBucketed ==
    \A c \in DOMAIN lsh.simhashes : \A b \in BandIds :
        c \in Bucketed(lsh, b, extract_bands(lsh.simhashes[c])[b])

(* a query that ended in a KeyError *)
C36_QueryRaised == lshret.op = "query_nearest" /\ lshret.raised

(* two simhashes have the same value in at least one band *)
ShareBand(a, b) == \E i \in BandIds : extract_bands(a)[i] = extract_bands(b)[i]

(* C37: two simhashes at a hamming distance below the number of bands (at *)
(* most 7 with 8 bands) share at least one band, so an indexed chunk that *)
(* close to the queried simhash is always among the candidates; a chunk   *)
(* can be missed only from a distance of the number of bands (8) on.      *)
C37_CloseHashesShareBand ==
    \A q \in SimHashes : \A c \in DOMAIN lsh.simhashes :
        /\ hamming_distance(q, lsh.simhashes[c]) < N_BANDS => ShareBand(q, lsh.simhashes[c])
        /\ hamming_distance(q, lsh.simhashes[c]) < N_BANDS => c \in query_candidates(lsh, q)
        /\ c \notin query_candidates(lsh, q) => hamming_distance(q, lsh.simhashes[c]) >= N_BANDS

(* a query with one indexed chunk at distance N_BANDS - 1 among the       *)
(* candidates and another at distance N_BANDS that is missed              *)
C37_Witness ==
    /\ lshret.op = "query_nearest"
    /\ \E c \in DOMAIN lsh.simhashes :
           /\ hamming_distance(lshret.simhash, lsh.simhashes[c]) = N_BANDS - 1
           /\ c \in query_candidates(lsh, lshret.simhash)
    /\ \E c \in DOMAIN lsh.simhashes :
           /\ hamming_distance(lshret.simhash, lsh.simhashes[c]) = N_BANDS
           /\ c \notin query_candidates(lsh, lshret.simhash)

(* ---------------------------------------------------------------------- *)
(* The AnomalyDetector.  Ratios are whole numbers, and the z-score tests  *)
(* are made without the square root: with n = len(history), S = its sum,  *)
(* D = n * ratio - S and V = the sum of (n * x - S)^2, the variance is    *)
(* V / n^3 and z = D * sqrt(n / V), or 1000 * D / n when V = 0 (std is    *)
(* then 0.001).                                                           *)
(* ---------------------------------------------------------------------- *)
Ratios == {1, 2, 9}

AnomalyWindows == {3, WINDOW_SIZE}

RECURSIVE SumOf(_)
SumOf(h) == IF h = <<>> THEN 0 ELSE h[1] + SumOf(Tail(h))

RECURSIVE SquaresOf(_, _, _)
SquaresOf(h, n, S) ==
    IF h = <<>> THEN 0
    ELSE (n * h[1] - S) * (n * h[1] - S) + SquaresOf(Tail(h), n, S)

(* z_score < self._z_low, for a negative z_low *)
z_below(history, ratio) ==
    LET n == Len(history)
        S == SumOf(history)
        D == n * ratio - S
        V == SquaresOf(history, n, S)
    IN  IF V > 0 THEN D < 0 /\ D * D * n > Z_LOW * Z_LOW * V
        ELSE 1000 * D < Z_LOW * n

(* z_score > self._z_high, for a positive z_high *)
z_above(history, ratio) ==
    LET n == Len(history)
        S == SumOf(history)
        D == n * ratio - S
        V == SquaresOf(history, n, S)
    IN  IF V > 0 THEN D > 0 /\ D * D * n > Z_HIGH * Z_HIGH * V
        ELSE 1000 * D > Z_HIGH * n

(* deque(maxlen = window_size).append(ratio) *)
history_append(history, ratio, window_size) ==
    IF window_size = 0 THEN <<>>
    ELSE IF Len(history) = window_size THEN Tail(history) \o <<ratio>>
    ELSE history \o <<ratio>>

(* observe() leaving the ratio out of the window when it raised an alert *)
observe_drop_alerted(d, ratio) ==
    IF Len(d.history) < MIN_HISTORY
    THEN [d EXCEPT !.observation_count = @ + 1,
                   !.history = history_append(d.history, ratio, d.window_size),
                   !.ret = FALSE, !.scored = <<>>]
    ELSE LET alert == z_below(d.history, ratio) \/ z_above(d.history, ratio)
         IN  [d EXCEPT !.observation_count = @ + 1,
                       !.alerts = IF alert THEN @ + 1 ELSE @,
                       !.history = IF alert THEN @
                                   ELSE history_append(d.history, ratio, d.window_size),
                       !.ret = alert, !.scored = d.history]

(* AnomalyDetector.observe(ratio); scored is the window the z-score was   *)
(* computed from, empty when no score was computed.                       *)
observe(d, ratio) ==
    IF Len(d.history) < MIN_HISTORY
    THEN [d EXCEPT !.observation_count = @ + 1,
                   !.history = history_append(d.history, ratio, d.window_size),
                   !.ret = FALSE, !.scored = <<>>]
    ELSE LET alert == z_below(d.history, ratio) \/ z_above(d.history, ratio)
         IN  [d EXCEPT !.observation_count = @ + 1,
                       !.alerts = IF alert THEN @ + 1 ELSE @,
                       !.history = history_append(d.history, ratio, d.window_size),
                       !.ret = alert, !.scored = d.history]

AnomInit ==
    /\ MemInit /\ CdcIdle /\ StreamIdle /\ FedInit /\ C3Idle /\ ThrIdle /\ UsesIdle
    /\ LshIdle /\ RegIdle /\ DuoIdle
    /\ anom \in {NewAnomalyDetector(w) : w \in AnomalyWindows}
    /\ observed = <<>>

Observe(ratio) ==
    /\ Len(observed) < MaxObservations
    /\ anom' = observe(anom, ratio)
    /\ observed' = observed \o <<ratio>>
    /\ UNCHANGED beside_anom

AnomNext == \E ratio \in Ratios : Observe(ratio)

SpecAnom == AnomInit /\ [][AnomNext]_vars

(* the last k elements of a sequence *)
LastOf(s, k) == SubSeq(s, Len(s) - k + 1, Len(s))

(* the window as it was before the last observe(): the last               *)
(* min(n - 1, W) of the ratios before the last one                        *)
WindowBefore ==
    LET earlier == SubSeq(observed, 1, Len(observed) - 1)
    IN  LastOf(earlier, Min2(Len(earlier), anom.window_size))

(* C34: after n observe() calls the window holds exactly the last         *)
(* min(n, W) ratios in arrival order, whether or not a call raised an     *)
(* alert; every observation is scored against the window as it was before *)
(* the observation was appended, and with fewer than 5 entries in the     *)
(* window the ratio is appended and None returned.                        *)
C34_WindowHoldsLastRatios ==
    /\ anom.observation_count = Len(observed)
    /\ anom.history = LastOf(observed, Min2(Len(observed), anom.window_size))
    /\ observed # <<>> =>
          IF Len(WindowBefore) < MIN_HISTORY
          THEN ~anom.ret /\ anom.scored = <<>>
          ELSE /\ anom.scored = WindowBefore
               /\ anom.ret = (\/ z_below(WindowBefore, observed[Len(observed)])
                              \/ z_above(WindowBefore, observed[Len(observed)]))

(* a full window that has slid, with the last ratio alerted on and in it *)
C34_Witness ==
    /\ anom.window_size = WINDOW_SIZE
    /\ Len(observed) > WINDOW_SIZE
    /\ anom.ret
    /\ anom.alerts >= 2
    /\ anom.history[Len(anom.history)] = observed[Len(observed)]

(* a window smaller than 5 never scores *)
C34_SmallWindowWitness ==
    /\ anom.window_size < MIN_HISTORY
    /\ Len(observed) > MIN_HISTORY
    /\ Len(anom.history) = anom.window_size

(* C35: cogdedup_encode on a MemoryCogStore never raises, and every entry *)
(* lookup_similar can hand out as the base of a DELTA carries its data:   *)
(* no chunk whose data was archived is left in the LSH index.             *)
C35_EncodeNeverRaises ==
    /\ (last.op = "encode") => ~last.raised
    /\ \A c \in DOMAIN store.lsh.simhashes :
           c \in DOMAIN store.by_id /\ store.by_id[c].data # None

(* time passes between two calls on the stream or before its first call *)
StreamTick ==
    /\ clock < MaxClock
    /\ clock' = clock + 1
    /\ UNCHANGED <<store, cache, blobs, last, nEnc, nSto, cdcVars, streamVars, fedVars,
                   c3Vars, thrVars, usesVars, unitVars>>

StreamColdNext ==
    \/ StreamNext
    \/ StreamTick

(* the stream on a store whose chunks can age and be archived *)
SpecStreamCold == StreamInit /\ [][StreamColdNext]_vars

(* the chunks a stream has emitted, read back from the store by their ids *)
RECURSIVE EmittedBytes(_, _)
EmittedBytes(ids, s) ==
    IF ids = <<>> THEN <<>>
    ELSE mem_get(s, ids[1]).entry.data \o EmittedBytes(Tail(ids), s)

Buffered(stm) == Len(stm.buf) - stm.chunk_start

StreamAccounted ==
    ~stream.finished =>
        stream.total_fed = Len(EmittedBytes(stream.chunk_ids, store)) + Buffered(stream)

BufferBelowMax == ~stream.finished => Buffered(stream) < MAX_CHUNK

FinishedHoldsFed ==
    (scall.op = "finish" /\ scall.error = "none") =>
        EmittedBytes(stream.chunk_ids, store) = sctx.fed

(* C38: between calls on an open CogdedupStream, bytes_fed is the total   *)
(* length of the chunks emitted so far plus the buffered bytes, and the   *)
(* buffer holds fewer than MAX_CHUNK bytes; after finish() the emitted    *)
(* chunks concatenate to exactly the bytes fed.                           *)
C38_StreamAccounting == StreamAccounted /\ BufferBelowMax /\ FinishedHoldsFed

(* ---------------------------------------------------------------------- *)
(* Two CogdedupStreams on one store and one predictor, as two calls of    *)
(* MemorySpine.stream_compressor give them; their feed() and finish()     *)
(* calls interleave call by call.                                         *)
(* ---------------------------------------------------------------------- *)
StreamNames == {"s1", "s2"}

DuoPayloads == { <<0, 0, 1, 1, 0, 1>> }

(* fed: the bytes handed to the stream's feed() calls; finish: "none"     *)
(* before finish(), "ok" once it returned blob, "raised" when it raised   *)
NoDuoCall == [fed |-> <<>>, finish |-> "none", blob |-> <<>>, feed_raised |-> FALSE]

DuoInit ==
    /\ MemInit /\ CdcIdle /\ StreamIdle /\ FedInit /\ C3Idle /\ ThrIdle /\ UsesIdle
    /\ LshIdle /\ AnomIdle /\ RegIdle
    /\ duo \in {[s \in StreamNames |-> [stm |-> NewStream, usePred |-> p]] : p \in BOOLEAN}
    /\ dfed = [s \in StreamNames |-> NoDuoCall]

beside_duo == <<blobs, last, nEnc, nSto, cdcVars, streamVars, fedVars, c3Vars, thrVars,
                usesVars, lshVars, anomVars, regVars>>

DuoBegun == \E s \in StreamNames : dfed[s].fed # <<>> \/ dfed[s].finish # "none"

(* an encode on the store before either stream's first call *)
DuoWarmUp(x) ==
    /\ ~DuoBegun
    /\ EncodeCall(x, duo["s1"].usePred, MaxDuoWarmUps)

DuoTick ==
    /\ clock < MaxClock
    /\ clock' = clock + 1
    /\ UNCHANGED <<store, cache, duoVars>>
    /\ UNCHANGED beside_duo

(* stream_compressor() s: stream.feed(piece) *)
DuoFeedReturn(s, piece, r) ==
    /\ duo' = [duo EXCEPT ![s].stm = r.stm]
    /\ store' = r.st
    /\ cache' = r.cache
    /\ dfed' = [dfed EXCEPT ![s].fed = @ \o piece,
                            ![s].feed_raised = @ \/ r.error = "type"]

DuoFeed(s, piece) ==
    /\ ~duo[s].stm.finished
    /\ Len(dfed[s].fed) + Len(piece) <= MaxDuoLen
    /\ DuoFeedReturn(s, piece,
                     stream_feed(duo[s].stm, store, cache, piece, duo[s].usePred, clock))
    /\ UNCHANGED clock
    /\ UNCHANGED beside_duo

(* stream_compressor() s: stream.finish() *)
DuoFinishReturn(s, r) ==
    /\ duo' = [duo EXCEPT ![s].stm = r.stm]
    /\ store' = r.st
    /\ cache' = r.cache
    /\ dfed' = [dfed EXCEPT ![s].finish = IF r.error = "none" THEN "ok" ELSE "raised",
                            ![s].blob = r.blob]

DuoFinish(s) ==
    /\ ~duo[s].stm.finished
    /\ DuoFinishReturn(s, stream_finish(duo[s].stm, store, cache, duo[s].usePred, "", clock))
    /\ UNCHANGED clock
    /\ UNCHANGED beside_duo

DuoWarmNext ==
    \/ \E x \in DuoPayloads : DuoWarmUp(x)
    \/ \E s \in StreamNames, piece \in FeedPieces : DuoFeed(s, piece)
    \/ \E s \in StreamNames : DuoFinish(s)

(* the two streams on a store whose chunks do not age *)
SpecDuoWarm == DuoInit /\ [][DuoWarmNext]_vars

DuoNext ==
    \/ DuoWarmNext
    \/ DuoTick

SpecDuo == DuoInit /\ [][DuoNext]_vars

(* C39: with two CogdedupStreams on one store and one predictor, fed in   *)
(* any interleaving of their feed() calls, each stream's finish() returns *)
(* a blob, and the blob decodes against that store to exactly the bytes   *)
(* fed to that stream.                                                    *)
C39_EachStreamDecodes ==
    \A s \in StreamNames :
        /\ dfed[s].finish # "raised"
        /\ dfed[s].finish = "ok" => DecodesTo(dfed[s].blob, dfed[s].fed, store)

(* the blobs that finish() did return, on streams no feed() of which      *)
(* raised, decode to the bytes fed                                        *)
C39_ReturnedBlobsDecode ==
    \A s \in StreamNames :
        (dfed[s].finish = "ok" /\ ~dfed[s].feed_raised) =>
            DecodesTo(dfed[s].blob, dfed[s].fed, store)

(* both streams finished after feed() calls that alternated, one blob     *)
(* referring to a chunk the other stream stored                           *)
C39_BothFinished ==
    /\ \A s \in StreamNames : dfed[s].finish = "ok" /\ Len(dfed[s].fed) >= 3
    /\ duo["s1"].stm.stats.ref + duo["s1"].stm.stats.delta > 0
    /\ duo["s2"].stm.stats.ref + duo["s2"].stm.stats.delta > 0

(* ---------------------------------------------------------------------- *)
(* register_data_chunks on a MemoryCogStore and on a C3CogStore, the same *)
(* calls made on both.  data_chunks is the MemoryCogStore's _data_chunks, *)
(* memory_chunks the rows (memory_id, chunk_id) of the C3CogStore's       *)
(* cogdedup_memory_chunks table, whose primary key is the whole row.      *)
(* ---------------------------------------------------------------------- *)
DataIds == {"a", "b"}

RegChunkSets == SUBSET {0, 1, 2}

(* INSERT OR IGNORE of one row per chunk id *)
c3_register_data_chunks(rows, data_id, chunk_ids) ==
    rows \cup {<<data_id, cid>> : cid \in chunk_ids}

c3_get_chunk_ids_for_data(rows, data_id) ==
    {r[2] : r \in {x \in rows : x[1] = data_id}}

beside_reg == <<memVars, cdcVars, streamVars, fedVars, c3Vars, thrVars, usesVars,
                lshVars, anomVars, duoVars>>

(* store.register_data_chunks(data_id, chunk_ids) on both stores *)
RegisterDataChunks(data_id, chunk_ids) ==
    /\ regs < MaxRegs
    /\ data_chunks' = mem_register_data_chunks([data_chunks |-> data_chunks],
                                               data_id, chunk_ids).data_chunks
    /\ memory_chunks' = c3_register_data_chunks(memory_chunks, data_id, chunk_ids)
    /\ regs' = regs + 1
    /\ UNCHANGED beside_reg

RegNext == \E d \in DataIds, ids \in RegChunkSets : RegisterDataChunks(d, ids)

SpecReg == Init /\ [][RegNext]_vars

(* C40: after the same sequence of register_data_chunks calls, including  *)
(* the re-registration of a data id with a different set, the             *)
(* MemoryCogStore and the C3CogStore return the same chunk ids for every  *)
(* data id.                                                               *)
C40_StoresAgree ==
    \A d \in DataIds :
        mem_get_chunk_ids_for_data([data_chunks |-> data_chunks], d)
            = c3_get_chunk_ids_for_data(memory_chunks, d)

(* what the two stores do agree on: the C3CogStore holds every chunk id   *)
(* the MemoryCogStore holds for the data id                               *)
C40_MemoryWithinC3 ==
    \A d \in DataIds :
        mem_get_chunk_ids_for_data([data_chunks |-> data_chunks], d)
            \subseteq c3_get_chunk_ids_for_data(memory_chunks, d)

=============================================================================
